---- MODULE Spec2Model ----
(***************************************************************************)
(* The JSON subsystem of stdt: the Value model (src/json/value.rs), the    *)
(* recursive-descent parser (src/json/parser.rs) and the serializer        *)
(* (src/json/serializer.rs).                                               *)
(*                                                                         *)
(* A character is its Unicode scalar value (a natural number), a text is   *)
(* a sequence of characters.  The parser is modelled as the machine the    *)
(* Rust code runs: a cursor over the input, a stack with one frame per     *)
(* active call of a production, and the Result handed back by the callee   *)
(* that returned last.  One step is one loop iteration of a production.    *)
(***************************************************************************)
EXTENDS Integers, Sequences, FiniteSets, TLC

(***************************************************************************)
(* Characters                                                              *)
(***************************************************************************)

\* The printable ASCII characters in code point order, U+0020 .. U+007E.
Ascii ==
  << " ", "!", "\"", "#", "$", "%", "&", "'", "(", ")", "*", "+", ",", "-",
     ".", "/", "0", "1", "2", "3", "4", "5", "6", "7", "8", "9", ":", ";",
     "<", "=", ">", "?", "@", "A", "B", "C", "D", "E", "F", "G", "H", "I",
     "J", "K", "L", "M", "N", "O", "P", "Q", "R", "S", "T", "U", "V", "W",
     "X", "Y", "Z", "[", "\\", "]", "^", "_", "grave", "a", "b", "c", "d", "e",
     "f", "g", "h", "i", "j", "k", "l", "m", "n", "o", "p", "q", "r", "s",
     "t", "u", "v", "w", "x", "y", "z", "{", "|", "}", "~" >>

\* The scalar value of a printable ASCII character written as a string.
Ch(c) == 31 + (CHOOSE i \in DOMAIN Ascii : Ascii[i] = c)

\* The text whose characters are written one per string: Txt(<<"[", "]">>).
Txt(cs) == [i \in DOMAIN cs |-> Ch(cs[i])]

\* The control characters the code names, and the snowman of its tests.
BS == 8
TAB == 9
LF == 10
FF == 12
CR == 13
LastControl == 31
Snowman == 9731

\* char::is_whitespace: the Unicode White_Space property.
is_whitespace(c) ==
  \/ c \in 9..13
  \/ c \in {32, 133, 160, 5760, 8232, 8233, 8239, 8287, 12288}
  \/ c \in 8192..8202

\* char::is_digit(10)
is_digit(c) == c \in Ch("0")..Ch("9")

\* char::is_alphabetic: the Unicode Alphabetic property, here for the Basic
\* Latin and Latin-1 Supplement blocks (every other character the inputs use
\* is listed above and is not alphabetic).
is_alphabetic(c) ==
  \/ c \in Ch("A")..Ch("Z")
  \/ c \in Ch("a")..Ch("z")
  \/ c \in {170, 181, 186}
  \/ c \in (192..214) \cup (216..246) \cup (248..255)

\* char::to_digit(16), -1 for a character that is no hexadecimal digit.
hex_digit(c) ==
  IF is_digit(c) THEN c - Ch("0")
  ELSE IF c \in Ch("a")..Ch("f") THEN c - Ch("a") + 10
  ELSE IF c \in Ch("A")..Ch("F") THEN c - Ch("A") + 10
  ELSE -1

(***************************************************************************)
(* f64.  A finite value is sign, decimal digits and a decimal exponent:    *)
(* the number  digits * 10^exp  with no leading and no trailing zero       *)
(* digit, zero being the empty digit string.  This is the shortest decimal *)
(* that Rust prints for the value and that parses back to it.              *)
(***************************************************************************)

F64Zero(neg) == [cls |-> "finite", neg |-> neg, digits |-> <<>>, exp |-> 0]
F64Inf(neg) == [cls |-> "inf", neg |-> neg, digits |-> <<>>, exp |-> 0]
F64NaN == [cls |-> "nan", neg |-> FALSE, digits |-> <<>>, exp |-> 0]

\* f64::is_nan || f64::is_infinite
is_non_finite(n) == n.cls # "finite"

\* f64's PartialEq: NaN equals nothing, 0.0 equals -0.0.
f64_eq(a, b) ==
  /\ a.cls # "nan"
  /\ b.cls # "nan"
  /\ a.cls = b.cls
  /\ IF a.cls = "inf" THEN a.neg = b.neg
     ELSE /\ a.digits = b.digits
          /\ a.exp = b.exp
          /\ (a.digits = <<>> \/ a.neg = b.neg)

\* ds without the zeros it begins with.
StripLeadingZeros(ds) ==
  LET first == CHOOSE j \in 1..(Len(ds) + 1) :
                 /\ \A k \in 1..(j - 1) : ds[k] = Ch("0")
                 /\ j = Len(ds) + 1 \/ ds[j] # Ch("0")
  IN  SubSeq(ds, first, Len(ds))

\* The number of zeros ds ends with.
TrailingZeros(ds) ==
  LET last == CHOOSE j \in 0..Len(ds) :
                /\ \A k \in (j + 1)..Len(ds) : ds[k] = Ch("0")
                /\ j = 0 \/ ds[j] # Ch("0")
  IN  Len(ds) - last

RECURSIVE DecimalValue(_)
DecimalValue(ds) ==
  IF ds = <<>> THEN 0
  ELSE 10 * DecimalValue(SubSeq(ds, 1, Len(ds) - 1)) + (ds[Len(ds)] - Ch("0"))

\* The length of the longest prefix of s, read from index i, made of digits.
DigitRun(s, i) ==
  IF i > Len(s) THEN 0
  ELSE LET stop == CHOOSE j \in i..(Len(s) + 1) :
                     /\ \A k \in i..(j - 1) : is_digit(s[k])
                     /\ j = Len(s) + 1 \/ ~is_digit(s[j])
       IN  stop - i

Zeros(n) == [i \in 1..n |-> Ch("0")]

\* The first four significant digits of a digit string, as a number
\* (the string padded with zeros when it is shorter).
Lead4(ds) == DecimalValue(SubSeq(ds \o Zeros(4), 1, 4))

\* Rounding of the decimal  ds * 10^e  (ds without leading or trailing zero)
\* to f64: beyond f64::MAX (1.797...e308) it is an infinity, below half of
\* the least subnormal (2.470...e-324) it is zero.
round_to_f64(neg, ds, e) ==
  LET order == Len(ds) + e
  IN  IF ds = <<>> THEN F64Zero(neg)
      ELSE IF order > 309 \/ (order = 309 /\ Lead4(ds) > 1797) THEN F64Inf(neg)
      ELSE IF order < -323 \/ (order = -323 /\ Lead4(ds) <= 2470) THEN F64Zero(neg)
      ELSE [cls |-> "finite", neg |-> neg, digits |-> ds, exp |-> e]

\* <f64 as FromStr>::from_str on a text made of digits, '.', 'e', 'E', '+'
\* and '-':   [+-]? (digit+ | digit+ '.' digit* | digit* '.' digit+)
\*            ([eE] [+-]? digit+)?
\* The result is [ok, n].
f64_from_str(s) ==
  LET signed == s # <<>> /\ s[1] \in {Ch("+"), Ch("-")}
      neg == signed /\ s[1] = Ch("-")
      i0 == IF signed THEN 2 ELSE 1
      nint == DigitRun(s, i0)
      i1 == i0 + nint
      dot == i1 <= Len(s) /\ s[i1] = Ch(".")
      nfrac == IF dot THEN DigitRun(s, i1 + 1) ELSE 0
      i2 == IF dot THEN i1 + 1 + nfrac ELSE i1
      hasExp == i2 <= Len(s) /\ s[i2] \in {Ch("e"), Ch("E")}
      expSigned == hasExp /\ i2 + 1 <= Len(s) /\ s[i2 + 1] \in {Ch("+"), Ch("-")}
      expNeg == expSigned /\ s[i2 + 1] = Ch("-")
      i3 == IF expSigned THEN i2 + 2 ELSE i2 + 1
      nexp == IF hasExp THEN DigitRun(s, i3) ELSE 0
      iend == IF hasExp THEN i3 + nexp ELSE i2
      mant == SubSeq(s, i0, i1 - 1) \o SubSeq(s, i1 + 1, i1 + nfrac)
      expv == DecimalValue(StripLeadingZeros(SubSeq(s, i3, i3 + nexp - 1)))
      sig == StripLeadingZeros(mant)
      tz == TrailingZeros(sig)
      ds == SubSeq(sig, 1, Len(sig) - tz)
      e == (IF expNeg THEN 0 - expv ELSE expv) - nfrac + tz
      valid == /\ nint + nfrac > 0
               /\ hasExp => nexp > 0
               /\ iend = Len(s) + 1
  IN  IF valid THEN [ok |-> TRUE, n |-> round_to_f64(neg, ds, IF ds = <<>> THEN 0 ELSE e)]
      ELSE [ok |-> FALSE, n |-> F64NaN]

\* <f64 as Display>::fmt: the shortest decimal, written positionally (never
\* with an exponent), integers without a fraction.
f64_to_string(n) ==
  LET d == Len(n.digits)
      k == 0 - n.exp
      sign == IF n.neg THEN <<Ch("-")>> ELSE <<>>
  IN  IF n.cls = "nan" THEN Txt(<<"N", "a", "N">>)
      ELSE IF n.cls = "inf" THEN sign \o Txt(<<"i", "n", "f">>)
      ELSE IF d = 0 THEN sign \o <<Ch("0")>>
      ELSE IF n.exp >= 0 THEN sign \o n.digits \o Zeros(n.exp)
      ELSE IF d > k
        THEN sign \o SubSeq(n.digits, 1, d - k) \o <<Ch(".")>> \o SubSeq(n.digits, d - k + 1, d)
      ELSE sign \o <<Ch("0"), Ch(".")>> \o Zeros(k - d) \o n.digits

(***************************************************************************)
(* Value (value.rs) and ParseError (parser.rs).  Every Value is a record   *)
(* of the same shape; the fields a variant does not use hold a default.    *)
(* An Object is a function from its keys (texts) to Values, as a HashMap.  *)
(***************************************************************************)

NoFields == [b |-> FALSE, n |-> F64Zero(FALSE), s |-> <<>>, arr |-> <<>>, obj |-> <<>>]

Null == [tag |-> "Null"] @@ NoFields
Bool(b) == [tag |-> "Bool", b |-> b] @@ NoFields
Number(n) == [tag |-> "Number", n |-> n] @@ NoFields
String(s) == [tag |-> "String", s |-> s] @@ NoFields
Array(arr) == [tag |-> "Array", arr |-> arr] @@ NoFields
Object(obj) == [tag |-> "Object", obj |-> obj] @@ NoFields

\* #[derive(PartialEq)] on Value: structural equality, Numbers by f64's ==,
\* Arrays in order, Objects (HashMap) as mappings.
RECURSIVE ValueEq(_, _)
ValueEq(a, b) ==
  /\ a.tag = b.tag
  /\ CASE a.tag = "Null" -> TRUE
       [] a.tag = "Bool" -> a.b = b.b
       [] a.tag = "Number" -> f64_eq(a.n, b.n)
       [] a.tag = "String" -> a.s = b.s
       [] a.tag = "Array" ->
            /\ Len(a.arr) = Len(b.arr)
            /\ \A i \in DOMAIN a.arr : ValueEq(a.arr[i], b.arr[i])
       [] a.tag = "Object" ->
            /\ DOMAIN a.obj = DOMAIN b.obj
            /\ \A k \in DOMAIN a.obj : ValueEq(a.obj[k], b.obj[k])

\* Faulty variant of insert: the entry of an existing key is kept.
insert_keeping(obj, key, value) ==
  [k \in DOMAIN obj \cup {key} |-> IF k \in DOMAIN obj THEN obj[k] ELSE value]

\* HashMap::insert: the entry of an existing key is replaced.
insert(obj, key, value) ==
  [k \in DOMAIN obj \cup {key} |-> IF k = key THEN value ELSE obj[k]]

\* A ParseError: its variant, the character it carries (-1 when none) and the
\* text it carries (InvalidLiteral).
NoChar == -1
Error(kind, c, text) == [kind |-> kind, c |-> c, text |-> text]
UnexpectedEndOfInput == Error("UnexpectedEndOfInput", NoChar, <<>>)
UnexpectedToken(c) == Error("UnexpectedToken", c, <<>>)
UnterminatedString == Error("UnterminatedString", NoChar, <<>>)
InvalidEscapeSequence(c) == Error("InvalidEscapeSequence", c, <<>>)
InvalidNumber == Error("InvalidNumber", NoChar, <<>>)
InvalidLiteral(text) == Error("InvalidLiteral", NoChar, text)
TrailingCharacters == Error("TrailingCharacters", NoChar, <<>>)
NoError == Error("", NoChar, <<>>)

\* Result<Value, ParseError>; None is the state of a call that has not
\* returned yet.
Ok(v) == [is |-> "Ok", value |-> v, err |-> NoError]
Err(e) == [is |-> "Err", value |-> Null, err |-> e]
None == [is |-> "None", value |-> Null, err |-> NoError]

(***************************************************************************)
(* The serializer: impl fmt::Display for Value (serializer.rs).            *)
(***************************************************************************)

HexDigits == Txt(<<"0", "1", "2", "3", "4", "5", "6", "7", "8", "9",
                   "a", "b", "c", "d", "e", "f">>)

\* format!("{:04x}", n) for n < 16^4
hex04(n) ==
  << HexDigits[((n \div 4096) % 16) + 1], HexDigits[((n \div 256) % 16) + 1],
     HexDigits[((n \div 16) % 16) + 1], HexDigits[(n % 16) + 1] >>

\* Faulty variant of escape_char: the backslash is written unescaped.
escape_char_raw_backslash(c) ==
  CASE c = Ch("\"") -> Txt(<<"\\", "\"">>)
    [] c = Ch("/") -> Txt(<<"\\", "/">>)
    [] c = BS -> Txt(<<"\\", "b">>)
    [] c = FF -> Txt(<<"\\", "f">>)
    [] c = LF -> Txt(<<"\\", "n">>)
    [] c = CR -> Txt(<<"\\", "r">>)
    [] c = TAB -> Txt(<<"\\", "t">>)
    [] OTHER -> IF c >= 0 /\ c <= LastControl
                THEN Txt(<<"\\", "u">>) \o hex04(c)
                ELSE <<c>>

\* Faulty variant of escape_char: the slash is written unescaped.
escape_char_plain_slash(c) ==
  CASE c = Ch("\"") -> Txt(<<"\\", "\"">>)
    [] c = Ch("\\") -> Txt(<<"\\", "\\">>)
    [] c = BS -> Txt(<<"\\", "b">>)
    [] c = FF -> Txt(<<"\\", "f">>)
    [] c = LF -> Txt(<<"\\", "n">>)
    [] c = CR -> Txt(<<"\\", "r">>)
    [] c = TAB -> Txt(<<"\\", "t">>)
    [] OTHER -> IF c >= 0 /\ c <= LastControl
                THEN Txt(<<"\\", "u">>) \o hex04(c)
                ELSE <<c>>

\* The String arm's match on one character.
escape_char(c) ==
  CASE c = Ch("\"") -> Txt(<<"\\", "\"">>)
    [] c = Ch("\\") -> Txt(<<"\\", "\\">>)
    [] c = Ch("/") -> Txt(<<"\\", "/">>)
    [] c = BS -> Txt(<<"\\", "b">>)
    [] c = FF -> Txt(<<"\\", "f">>)
    [] c = LF -> Txt(<<"\\", "n">>)
    [] c = CR -> Txt(<<"\\", "r">>)
    [] c = TAB -> Txt(<<"\\", "t">>)
    [] OTHER -> IF c >= 0 /\ c <= LastControl
                THEN Txt(<<"\\", "u">>) \o hex04(c)
                ELSE <<c>>

RECURSIVE Flatten(_)
Flatten(texts) ==
  IF texts = <<>> THEN <<>> ELSE Head(texts) \o Flatten(Tail(texts))

\* The String arm: the quoted, escaped text.
fmt_string(s) ==
  <<Ch("\"")>> \o Flatten([i \in DOMAIN s |-> escape_char(s[i])]) \o <<Ch("\"")>>

\* Faulty variant of fmt_number: NaN and the infinities are written as Rust
\* displays them.
fmt_number_unguarded(n) == f64_to_string(n)

\* Faulty variant of fmt_number: only NaN is written as null.
fmt_number_nan_only(n) ==
  IF n.cls = "nan" THEN Txt(<<"n", "u", "l", "l">>) ELSE f64_to_string(n)

\* The Number arm.
fmt_number(n) ==
  IF is_non_finite(n) THEN Txt(<<"n", "u", "l", "l">>) ELSE f64_to_string(n)

\* Faulty variant of Joined: a space is written after each comma.
RECURSIVE JoinedSpaced(_)
JoinedSpaced(parts) ==
  IF parts = <<>> THEN {<<>>}
  ELSE IF Len(parts) = 1 THEN parts[1]
  ELSE {h \o <<Ch(","), Ch(" ")>> \o t : h \in parts[1], t \in JoinedSpaced(Tail(parts))}

\* The texts made of one text of each part, in order, separated by commas:
\* the loops over arr and obj with their `first` flag.
RECURSIVE Joined(_)
Joined(parts) ==
  IF parts = <<>> THEN {<<>>}
  ELSE IF Len(parts) = 1 THEN parts[1]
  ELSE {h \o <<Ch(",")>> \o t : h \in parts[1], t \in Joined(Tail(parts))}

\* Faulty variant of IterationOrders: a key may be yielded twice and another
\* not at all.
IterationOrdersRepeating(keys) == [1..Cardinality(keys) -> keys]

\* The orders in which a HashMap may yield its keys.
IterationOrders(keys) ==
  {ord \in [1..Cardinality(keys) -> keys] : \A k \in keys : \E i \in DOMAIN ord : ord[i] = k}

\* Display::fmt for Value.  A HashMap iterates in an unspecified order, so an
\* Object has one text per order of its keys: fmt is the set of the texts
\* to_string() may return.
RECURSIVE fmt(_)
fmt(v) ==
  CASE v.tag = "Null" -> {Txt(<<"n", "u", "l", "l">>)}
    [] v.tag = "Bool" -> {IF v.b THEN Txt(<<"t", "r", "u", "e">>)
                                 ELSE Txt(<<"f", "a", "l", "s", "e">>)}
    [] v.tag = "Number" -> {fmt_number(v.n)}
    [] v.tag = "String" -> {fmt_string(v.s)}
    [] v.tag = "Array" ->
         {<<Ch("[")>> \o body \o <<Ch("]")>> :
            body \in Joined([i \in DOMAIN v.arr |-> fmt(v.arr[i])])}
    [] v.tag = "Object" ->
         UNION {
           {<<Ch("{")>> \o body \o <<Ch("}")>> :
              body \in Joined([i \in DOMAIN ord |->
                         {fmt_string(ord[i]) \o <<Ch(":")>> \o t : t \in fmt(v.obj[ord[i]])}])}
           : ord \in IterationOrders(DOMAIN v.obj)}

(***************************************************************************)
(* The parser (parser.rs).  A parser state is                              *)
(*   chars  the input, pos the number of characters consumed so far        *)
(*          (Peekable<Chars>: chars[pos + 1] is the character peek() sees), *)
(*   stack  one frame per active call, the innermost last; a frame holds   *)
(*          the function, the place in it and its local variables,         *)
(*   ret    the Result the callee that returned last handed back.          *)
(***************************************************************************)

Frame(fn, pc) ==
  [fn |-> fn, pc |-> pc, s |-> <<>>, arr |-> <<>>, obj |-> <<>>, key |-> <<>>]

Top(p) == p.stack[Len(p.stack)]

\* Parser::peek: the next character, NoChar at the end of the input.
peek(p) == IF p.pos < Len(p.chars) THEN p.chars[p.pos + 1] ELSE NoChar

\* Parser::next: the cursor after the call (the character is peek(p)).
next(p) == IF p.pos < Len(p.chars) THEN [p EXCEPT !.pos = @ + 1] ELSE p

\* Parser::consume_whitespace
RECURSIVE consume_whitespace(_)
consume_whitespace(p) ==
  IF peek(p) # NoChar /\ is_whitespace(peek(p)) THEN consume_whitespace(next(p)) ELSE p

\* The current call continues at pc with its locals as in frame f.
Continue(p, f, pc) ==
  [p EXCEPT !.stack[Len(p.stack)] = [f EXCEPT !.pc = pc]]

\* The current call calls fn and will continue at pc, its locals as in f.
Call(p, f, pc, fn) ==
  [p EXCEPT !.stack = SubSeq(p.stack, 1, Len(p.stack) - 1)
                        \o <<[f EXCEPT !.pc = pc], Frame(fn, "start")>>,
            !.ret = None]

\* The current call returns res to its caller.
Return(p, res) ==
  [p EXCEPT !.stack = SubSeq(p.stack, 1, Len(p.stack) - 1), !.ret = res]

\* The `?` operator applied to the callee's result.
Failed(p) == p.ret.is = "Err"

\* Faulty variant of parse_value: the error carries the character at which
\* the call began, whitespace or not.
parse_value_unskipped(p) ==
  IF Top(p).pc = "start"
  THEN LET q == consume_whitespace(p)
           c == peek(q)
       IN  CASE c = Ch("{") -> Call(q, Top(q), "ret", "parse_object")
             [] c = Ch("[") -> Call(q, Top(q), "ret", "parse_array")
             [] c = Ch("\"") -> Call(q, Top(q), "ret", "parse_string")
             [] c \in {Ch("t"), Ch("f"), Ch("n")} -> Call(q, Top(q), "ret", "parse_literal")
             [] c # NoChar /\ (is_digit(c) \/ c = Ch("-")) ->
                  Call(q, Top(q), "ret", "parse_number")
             [] c = NoChar -> Return(q, Err(UnexpectedEndOfInput))
             [] OTHER -> Return(q, Err(UnexpectedToken(peek(p))))
  ELSE Return(p, p.ret)

\* Faulty variant of parse_value: the end of the input stands for null.
parse_value_empty(p) ==
  IF Top(p).pc = "start"
  THEN LET q == consume_whitespace(p)
           c == peek(q)
       IN  CASE c = Ch("{") -> Call(q, Top(q), "ret", "parse_object")
             [] c = Ch("[") -> Call(q, Top(q), "ret", "parse_array")
             [] c = Ch("\"") -> Call(q, Top(q), "ret", "parse_string")
             [] c \in {Ch("t"), Ch("f"), Ch("n")} -> Call(q, Top(q), "ret", "parse_literal")
             [] c # NoChar /\ (is_digit(c) \/ c = Ch("-")) ->
                  Call(q, Top(q), "ret", "parse_number")
             [] c = NoChar -> Return(q, Ok(Null))
             [] OTHER -> Return(q, Err(UnexpectedToken(c)))
  ELSE Return(p, p.ret)

\* Faulty variant of parse_value: the character that selects no production
\* is consumed.
parse_value_consuming(p) ==
  IF Top(p).pc = "start"
  THEN LET q == consume_whitespace(p)
           c == peek(q)
       IN  CASE c = Ch("{") -> Call(q, Top(q), "ret", "parse_object")
             [] c = Ch("[") -> Call(q, Top(q), "ret", "parse_array")
             [] c = Ch("\"") -> Call(q, Top(q), "ret", "parse_string")
             [] c \in {Ch("t"), Ch("f"), Ch("n")} -> Call(q, Top(q), "ret", "parse_literal")
             [] c # NoChar /\ (is_digit(c) \/ c = Ch("-")) ->
                  Call(q, Top(q), "ret", "parse_number")
             [] c = NoChar -> Return(q, Err(UnexpectedEndOfInput))
             [] OTHER -> Return(next(q), Err(UnexpectedToken(c)))
  ELSE Return(p, p.ret)

\* Parser::parse_value
parse_value(p) ==
  IF Top(p).pc = "start"
  THEN LET q == consume_whitespace(p)
           c == peek(q)
       IN  CASE c = Ch("{") -> Call(q, Top(q), "ret", "parse_object")
             [] c = Ch("[") -> Call(q, Top(q), "ret", "parse_array")
             [] c = Ch("\"") -> Call(q, Top(q), "ret", "parse_string")
             [] c \in {Ch("t"), Ch("f"), Ch("n")} -> Call(q, Top(q), "ret", "parse_literal")
             [] c # NoChar /\ (is_digit(c) \/ c = Ch("-")) ->
                  Call(q, Top(q), "ret", "parse_number")
             [] c = NoChar -> Return(q, Err(UnexpectedEndOfInput))
             [] OTHER -> Return(q, Err(UnexpectedToken(c)))
  ELSE Return(p, p.ret)

\* u32::from_str_radix(hex, 16): an optional '+' and then hexadecimal digits,
\* at least one.  [ok, n]
u32_from_str_radix_16(hex) ==
  LET digits == IF hex # <<>> /\ hex[1] = Ch("+") THEN Tail(hex) ELSE hex
      value[i \in 0..Len(digits)] ==
        IF i = 0 THEN 0 ELSE 16 * value[i - 1] + hex_digit(digits[i])
  IN  IF digits # <<>> /\ \A i \in DOMAIN digits : hex_digit(digits[i]) >= 0
      THEN [ok |-> TRUE, n |-> value[Len(digits)]]
      ELSE [ok |-> FALSE, n |-> 0]

\* Faulty variant of char_from_u32: a surrogate code is taken as a character.
char_from_u32_lossy(code) ==
  IF code > 1114111
  THEN [ok |-> FALSE, c |-> NoChar]
  ELSE [ok |-> TRUE, c |-> code]

\* std::char::from_u32: no scalar value for a surrogate or beyond U+10FFFF.
\* [ok, c]
char_from_u32(code) ==
  IF code \in 55296..57343 \/ code > 1114111
  THEN [ok |-> FALSE, c |-> NoChar]
  ELSE [ok |-> TRUE, c |-> code]

\* Faulty variant of parse_unicode_escape: an input that ends within the four
\* characters is reported as an invalid escape.
parse_unicode_escape_short(p) ==
  LET f == Top(p)
      left == Len(p.chars) - p.pos
      hex == SubSeq(p.chars, p.pos + 1, p.pos + 4)
      q == [p EXCEPT !.pos = @ + 4]
      code == u32_from_str_radix_16(hex)
      scalar == char_from_u32(code.n)
  IN  IF left < 4
      THEN Return([p EXCEPT !.pos = Len(p.chars)], Err(InvalidEscapeSequence(Ch("u"))))
      ELSE IF ~code.ok THEN Return(q, Err(InvalidEscapeSequence(Ch("u"))))
      ELSE IF ~scalar.ok THEN Return(q, Err(InvalidEscapeSequence(Ch("u"))))
      ELSE Continue(q, [f EXCEPT !.s = Append(@, scalar.c)], "loop")

\* parse_string, the 'u' arm; p is the state after the 'u' was consumed.
parse_unicode_escape(p) ==
  LET f == Top(p)
      left == Len(p.chars) - p.pos
      hex == SubSeq(p.chars, p.pos + 1, p.pos + 4)
      q == [p EXCEPT !.pos = @ + 4]
      code == u32_from_str_radix_16(hex)
      scalar == char_from_u32(code.n)
  IN  IF left < 4 THEN Return([p EXCEPT !.pos = Len(p.chars)], Err(UnterminatedString))
      ELSE IF ~code.ok THEN Return(q, Err(InvalidEscapeSequence(Ch("u"))))
      ELSE IF ~scalar.ok THEN Return(q, Err(InvalidEscapeSequence(Ch("u"))))
      ELSE Continue(q, [f EXCEPT !.s = Append(@, scalar.c)], "loop")

\* Faulty variant of parse_escape: an unknown escape stands for its own
\* character.
parse_escape_lenient(p) ==
  LET f == Top(p)
      escaped == peek(p)
      q == next(p)
      push(c) == Continue(q, [f EXCEPT !.s = Append(@, c)], "loop")
  IN  CASE escaped = NoChar -> Return(q, Err(UnterminatedString))
        [] escaped = Ch("b") -> push(BS)
        [] escaped = Ch("f") -> push(FF)
        [] escaped = Ch("n") -> push(LF)
        [] escaped = Ch("r") -> push(CR)
        [] escaped = Ch("t") -> push(TAB)
        [] escaped = Ch("u") -> parse_unicode_escape(q)
        [] OTHER -> push(escaped)

\* parse_string, the '\\' arm; p is the state after the backslash was consumed.
parse_escape(p) ==
  LET f == Top(p)
      escaped == peek(p)
      q == next(p)
      push(c) == Continue(q, [f EXCEPT !.s = Append(@, c)], "loop")
  IN  CASE escaped = NoChar -> Return(q, Err(UnterminatedString))
        [] escaped \in {Ch("\""), Ch("\\"), Ch("/")} -> push(escaped)
        [] escaped = Ch("b") -> push(BS)
        [] escaped = Ch("f") -> push(FF)
        [] escaped = Ch("n") -> push(LF)
        [] escaped = Ch("r") -> push(CR)
        [] escaped = Ch("t") -> push(TAB)
        [] escaped = Ch("u") -> parse_unicode_escape(q)
        [] OTHER -> Return(q, Err(InvalidEscapeSequence(escaped)))

\* Parser::parse_string: the opening quote, then one iteration of the loop.
parse_string(p) ==
  LET f == Top(p)
      c == peek(p)
      q == next(p)
  IN  IF f.pc = "start" THEN Continue(q, f, "loop")
      ELSE CASE c = NoChar -> Return(q, Err(UnterminatedString))
             [] c = Ch("\"") -> Return(q, Ok(String(f.s)))
             [] c = Ch("\\") -> parse_escape(q)
             [] OTHER -> Continue(q, [f EXCEPT !.s = Append(@, c)], "loop")

\* Faulty variant of is_number_char: the signs are left out.
is_number_char_unsigned(c) ==
  is_digit(c) \/ c \in {Ch("."), Ch("e"), Ch("E")}

\* The characters parse_number's loop accumulates.
is_number_char(c) ==
  is_digit(c) \/ c \in {Ch("."), Ch("e"), Ch("E"), Ch("+"), Ch("-")}

\* num_str.parse::<f64>().map(Value::Number).map_err(|_| InvalidNumber)
number_result(num_str) ==
  LET r == f64_from_str(num_str)
  IN  IF r.ok THEN Ok(Number(r.n)) ELSE Err(InvalidNumber)

\* Parser::parse_number: the optional '-', then one iteration of the loop.
parse_number(p) ==
  LET f == Top(p)
      c == peek(p)
      q == next(p)
  IN  IF f.pc = "start"
      THEN IF c = Ch("-") THEN Continue(q, [f EXCEPT !.s = Append(@, c)], "loop")
                          ELSE Continue(p, f, "loop")
      ELSE IF c # NoChar /\ is_number_char(c)
           THEN Continue(q, [f EXCEPT !.s = Append(@, c)], "loop")
           ELSE Return(p, number_result(f.s))

\* Faulty variant of after_item: a comma may be followed by the closing
\* bracket.
after_item_trailing(p, f, close, value, pc) ==
  LET q0 == consume_whitespace(p)
      c == peek(q0)
      q == next(q0)
      r == consume_whitespace(q)
  IN  CASE c = close -> Return(q, Ok(value))
        [] c = Ch(",") -> IF peek(r) = close THEN Return(next(r), Ok(value))
                          ELSE Call(q, f, pc, "parse_value")
        [] c = NoChar -> Return(q, Err(UnexpectedEndOfInput))
        [] OTHER -> Return(q, Err(UnexpectedToken(c)))

\* Faulty variant of after_item: the error carries the closing bracket that
\* was due.
after_item_expected(p, f, close, value, pc) ==
  LET q0 == consume_whitespace(p)
      c == peek(q0)
      q == next(q0)
  IN  CASE c = close -> Return(q, Ok(value))
        [] c = Ch(",") -> Call(q, f, pc, "parse_value")
        [] c = NoChar -> Return(q, Err(UnexpectedEndOfInput))
        [] OTHER -> Return(q, Err(UnexpectedToken(close)))

\* The closing or continuing character after an array element or an object
\* member; close is ']' or '}', f the frame with the element or member added.
after_item(p, f, close, value, pc) ==
  LET q0 == consume_whitespace(p)
      c == peek(q0)
      q == next(q0)
  IN  CASE c = close -> Return(q, Ok(value))
        [] c = Ch(",") -> Call(q, f, pc, "parse_value")
        [] c = NoChar -> Return(q, Err(UnexpectedEndOfInput))
        [] OTHER -> Return(q, Err(UnexpectedToken(c)))

\* Faulty variant of parse_array: an element that failed is taken as null
\* and the array goes on.
parse_array_recovering(p) ==
  LET f == Top(p)
  IN  IF f.pc = "start"
      THEN LET q == consume_whitespace(next(p))
           IN  IF peek(q) = Ch("]") THEN Return(next(q), Ok(Array(<<>>)))
               ELSE Call(q, f, "elem", "parse_value")
      ELSE LET arr == Append(f.arr, p.ret.value)
           IN  after_item(p, [f EXCEPT !.arr = arr], Ch("]"), Array(arr), "elem")

\* Faulty variant of parse_array: an element is put before the elements
\* parsed so far.
parse_array_prepending(p) ==
  LET f == Top(p)
  IN  IF f.pc = "start"
      THEN LET q == consume_whitespace(next(p))
           IN  IF peek(q) = Ch("]") THEN Return(next(q), Ok(Array(<<>>)))
               ELSE Call(q, f, "elem", "parse_value")
      ELSE IF Failed(p) THEN Return(p, p.ret)
      ELSE LET arr == <<p.ret.value>> \o f.arr
           IN  after_item(p, [f EXCEPT !.arr = arr], Ch("]"), Array(arr), "elem")

\* Parser::parse_array
parse_array(p) ==
  LET f == Top(p)
  IN  IF f.pc = "start"
      THEN LET q == consume_whitespace(next(p))
           IN  IF peek(q) = Ch("]") THEN Return(next(q), Ok(Array(<<>>)))
               ELSE Call(q, f, "elem", "parse_value")
      ELSE IF Failed(p) THEN Return(p, p.ret)
      ELSE LET arr == Append(f.arr, p.ret.value)
           IN  after_item(p, [f EXCEPT !.arr = arr], Ch("]"), Array(arr), "elem")

\* Faulty variant of object_key: the colon is due right after the key.
object_key_tight(p) ==
  LET f == Top(p)
      c == peek(p)
      q == next(p)
  IN  IF Failed(p) THEN Return(p, p.ret)
      ELSE IF p.ret.value.tag # "String" THEN Return(p, Err(UnexpectedToken(Ch("\""))))
      ELSE IF c # Ch(":") THEN Return(q, Err(UnexpectedToken(Ch(":"))))
      ELSE Call(q, [f EXCEPT !.key = p.ret.value.s], "value", "parse_value")

\* Faulty variant of object_key: whatever Value was parsed is taken as the
\* key, with its text or the empty text.
object_key_untyped(p) ==
  LET f == Top(p)
      q0 == consume_whitespace(p)
      c == peek(q0)
      q == next(q0)
  IN  IF Failed(p) THEN Return(p, p.ret)
      ELSE IF c # Ch(":") THEN Return(q, Err(UnexpectedToken(Ch(":"))))
      ELSE Call(q, [f EXCEPT !.key = p.ret.value.s], "value", "parse_value")

\* Faulty variant of object_key: the error carries the character seen
\* where the colon was due.
object_key_seen(p) ==
  LET f == Top(p)
      q0 == consume_whitespace(p)
      c == peek(q0)
      q == next(q0)
  IN  IF Failed(p) THEN Return(p, p.ret)
      ELSE IF p.ret.value.tag # "String" THEN Return(p, Err(UnexpectedToken(Ch("\""))))
      ELSE IF c # Ch(":") THEN Return(q, Err(UnexpectedToken(c)))
      ELSE Call(q, [f EXCEPT !.key = p.ret.value.s], "value", "parse_value")

\* parse_object, from the returned key to the call that parses the value.
object_key(p) ==
  LET f == Top(p)
      q0 == consume_whitespace(p)
      c == peek(q0)
      q == next(q0)
  IN  IF Failed(p) THEN Return(p, p.ret)
      ELSE IF p.ret.value.tag # "String" THEN Return(p, Err(UnexpectedToken(Ch("\""))))
      ELSE IF c # Ch(":") THEN Return(q, Err(UnexpectedToken(Ch(":"))))
      ELSE Call(q, [f EXCEPT !.key = p.ret.value.s], "value", "parse_value")

\* Parser::parse_object
parse_object(p) ==
  LET f == Top(p)
  IN  CASE f.pc = "start" ->
             LET q == consume_whitespace(next(p))
             IN  IF peek(q) = Ch("}") THEN Return(next(q), Ok(Object(<<>>)))
                 ELSE Call(q, f, "key", "parse_value")
        [] f.pc = "key" -> object_key(p)
        [] OTHER ->
             IF Failed(p) THEN Return(p, p.ret)
             ELSE LET obj == insert(f.obj, f.key, p.ret.value)
                  IN  after_item(p, [f EXCEPT !.obj = obj], Ch("}"), Object(obj), "key")

\* The match of parse_literal on the accumulated text.
literal_result(literal) ==
  CASE literal = Txt(<<"t", "r", "u", "e">>) -> Ok(Bool(TRUE))
    [] literal = Txt(<<"f", "a", "l", "s", "e">>) -> Ok(Bool(FALSE))
    [] literal = Txt(<<"n", "u", "l", "l">>) -> Ok(Null)
    [] OTHER -> Err(InvalidLiteral(literal))

\* Faulty variant of parse_literal: after a text that is no literal the
\* cursor is put back to where the text began.
parse_literal_rewinding(p) ==
  LET f == Top(p)
      c == peek(p)
  IN  IF c # NoChar /\ is_alphabetic(c)
      THEN Continue(next(p), [f EXCEPT !.s = Append(@, c)], "loop")
      ELSE IF literal_result(f.s).is = "Err"
           THEN Return([p EXCEPT !.pos = @ - Len(f.s)], literal_result(f.s))
           ELSE Return(p, literal_result(f.s))

\* Faulty variant of parse_literal: only ASCII letters are accumulated.
parse_literal_ascii(p) ==
  LET f == Top(p)
      c == peek(p)
  IN  IF c \in (Ch("A")..Ch("Z")) \cup (Ch("a")..Ch("z"))
      THEN Continue(next(p), [f EXCEPT !.s = Append(@, c)], "loop")
      ELSE Return(p, literal_result(f.s))

\* Parser::parse_literal: one iteration of the loop.
parse_literal(p) ==
  LET f == Top(p)
      c == peek(p)
  IN  IF c # NoChar /\ is_alphabetic(c)
      THEN Continue(next(p), [f EXCEPT !.s = Append(@, c)], "loop")
      ELSE Return(p, literal_result(f.s))

\* Faulty variant of from_str_body: what follows the value is not looked at.
from_str_body_unchecked(p) ==
  IF Top(p).pc = "start" THEN Call(p, Top(p), "value", "parse_value")
  ELSE Return(p, p.ret)

\* Faulty variant of from_str_body: whitespace after the value counts as
\* trailing characters.
from_str_body_strict(p) ==
  IF Top(p).pc = "start" THEN Call(p, Top(p), "value", "parse_value")
  ELSE IF Failed(p) THEN Return(p, p.ret)
  ELSE IF peek(p) # NoChar THEN Return(p, Err(TrailingCharacters))
  ELSE Return(p, Ok(p.ret.value))

\* from_str, after Parser::new: the call of parse_value, then the check for
\* trailing characters.
from_str_body(p) ==
  IF Top(p).pc = "start" THEN Call(p, Top(p), "value", "parse_value")
  ELSE IF Failed(p) THEN Return(p, p.ret)
  ELSE LET q == consume_whitespace(p)
       IN  IF peek(q) # NoChar THEN Return(q, Err(TrailingCharacters))
           ELSE Return(q, Ok(p.ret.value))

\* Parser::new, inside a call of from_str.
new(input) ==
  [chars |-> input, pos |-> 0, stack |-> <<Frame("from_str", "start")>>, ret |-> None]

\* No call is active.
Idle == [chars |-> <<>>, pos |-> 0, stack |-> <<>>, ret |-> None]

\* One step of the production that is running.
Step(p) ==
  LET fn == Top(p).fn
  IN  CASE fn = "from_str" -> from_str_body(p)
        [] fn = "parse_value" -> parse_value(p)
        [] fn = "parse_string" -> parse_string(p)
        [] fn = "parse_number" -> parse_number(p)
        [] fn = "parse_array" -> parse_array(p)
        [] fn = "parse_object" -> parse_object(p)
        [] fn = "parse_literal" -> parse_literal(p)

RECURSIVE Run(_)
Run(p) == IF p.stack = <<>> THEN p ELSE Run(Step(p))

\* from_str(s): the Result of the whole call.
from_str(input) == Run(new(input)).ret

(***************************************************************************)
(* The inputs.                                                             *)
(***************************************************************************)

MaxLen == 3
MaxNumberLen == 4
MaxStringLen == 2
MaxItems == 2

\* The texts of length at most n over an alphabet.
TextsOver(alphabet, n) == UNION {[1..k -> alphabet] : k \in 0..n}

\* Characters of every class the parser tells apart, in two alphabets.  The
\* characters of the structure: brackets, separators, quote, space, a digit
\* and a literal letter.
StructureAlphabet ==
  {Ch("["), Ch("]"), Ch("{"), Ch("}"), Ch(","), Ch(":"), Ch("\""), Ch(" "),
   Ch("1"), Ch("t")}

\* The characters of the tokens: quote and backslash, whitespace (space,
\* no-break space), digit, sign, literal letters (t, n), another letter, a
\* control character.
LexicalAlphabet ==
  {Ch("\""), Ch("\\"), Ch(" "), 160, Ch("1"), Ch("-"), Ch("t"), Ch("n"), Ch("u"), 1}

NumberAlphabet == {Ch("-"), Ch("0"), Ch("9"), Ch("."), Ch("e")}

\* Texts of the repository's tests and of the kinds of input they leave out.
Seeds ==
  {
    Txt(<<"\"", "a", "\\", "n", "\\", "\"", "\\", "u", "2", "6", "0", "3", "\"">>),  \* parser.rs:270 (shortened)
    Txt(<<"-", "2", ".", "5", "E", "-", "2">>),  \* parser.rs:280
    Txt(<<"1", "e", "3">>),  \* parser.rs:279
    Txt(<<"[", "1", ",", " ", "\"", "x", "\"", ",", " ", "n", "u", "l", "l", "]">>),  \* parser.rs:286 (shortened)
    Txt(<<"{", "\"", "a", "\"", ":", "1", ",", "\"", "b", "\"", ":", "f", "a", "l", "s", "e", "}">>),  \* parser.rs:300 (shortened)
    Txt(<<"{", "\"", "o", "\"", ":", "{", "\"", "i", "\"", ":", "[", "1", ",", "2", "]", "}", "}">>),  \* parser.rs:310 (shortened)
    Txt(<<" ", "t", "r", "u", "e", " ">>),  \* parser.rs:329
    Txt(<<"n", "u", "l", "l", " ", "0">>),  \* parser.rs:337
    Txt(<<"\"", "b", " ", "\\", "q", " ", "e", "\"">>),  \* parser.rs:349 (shortened)
    Txt(<<"-", "-", "1">>),  \* parser.rs:355
    Txt(<<"{", "1", ":", "2", "}">>),  \* parser.rs:367
    Txt(<<"{", "\"", "a", "\"", " ", "1", "}">>),  \* parser.rs:373
    Txt(<<"[", "1", " ", "\"", "a", "\"", "]">>),  \* parser.rs:379
    Txt(<<"{", "\"", "a", "\"", ":", "1", ",", "\"", "a", "\"", ":", "2", "}">>),  \* duplicate keys
    Txt(<<"t", "r", "u", "e", "i", "s", "h">>),  \* an extended literal
    Txt(<<"[", "1", "e", "9", "9", "9", "]">>),  \* a number beyond f64::MAX, nested
    Txt(<<"\"", "\\", "u", "d", "8", "3", "d", "\\", "u", "d", "e", "0", "0", "\"">>),  \* a surrogate pair
    Txt(<<"\"", "\\", "u", "0", "0", "1", "f", "\\", "/", "\"">>),  \* a control character escape
    Txt(<<"{", "n", "u", "l", "l", ":", "{", "}", "}">>),  \* a literal as a key
    Txt(<<"[", "1", " ", ",", " ", "]">>),  \* a trailing comma in an array
    Txt(<<"{", "\"", "a", "\"", ":", "1", ",", " ", "}">>)   \* a trailing comma in an object
  }

EditChars == {Ch(" "), Ch("\""), Ch("\\"), Ch(","), Ch("+"), Ch("x"), 233}

\* A text and the texts one character away from it: a character removed,
\* replaced or inserted; and its prefixes.
Neighbours(t) ==
  {t}
  \cup {SubSeq(t, 1, n) : n \in 0..Len(t)}
  \cup {SubSeq(t, 1, i - 1) \o SubSeq(t, i + 1, Len(t)) : i \in DOMAIN t}
  \cup {[t EXCEPT ![i] = c] : i \in DOMAIN t, c \in EditChars}
  \cup {SubSeq(t, 1, i) \o <<c>> \o SubSeq(t, i + 1, Len(t)) : i \in 0..Len(t), c \in EditChars}

Texts ==
  TextsOver(StructureAlphabet, MaxLen)
  \cup TextsOver(LexicalAlphabet, MaxLen)
  \cup TextsOver(NumberAlphabet, MaxNumberLen)
  \cup UNION {Neighbours(t) : t \in Seeds}

\* Finite f64 values, each in its shortest decimal form.
Finite(neg, digits, exp) == [cls |-> "finite", neg |-> neg, digits |-> digits, exp |-> exp]

FiniteNumbers ==
  {F64Zero(neg) : neg \in BOOLEAN}
  \cup {Finite(neg, ds, e) :
          neg \in BOOLEAN,
          ds \in {Txt(<<"1">>), Txt(<<"2", "5">>), Txt(<<"3", "1", "4", "1", "5">>)},
          e \in {-7, -4, -1, 0, 3, 21}}
  \cup {Finite(neg, Txt(<<"1", "7", "9", "7">>), 305) : neg \in BOOLEAN}

\* Characters of every class the serializer tells apart, and a letter that
\* is also the name of an escape.
StringChars ==
  {Ch("\""), Ch("\\"), Ch("/"), BS, FF, LF, CR, TAB, 0, LastControl, 127,
   Ch("a"), Ch("u"), 233, Snowman}

Scalars ==
  {Null, Bool(TRUE), Bool(FALSE)}
  \cup {Number(n) : n \in FiniteNumbers}
  \cup {String(s) : s \in TextsOver(StringChars, MaxStringLen)}

Keys == {<<>>, Txt(<<"a">>), <<Ch("\""), LF>>}

Leaves ==
  {Null, Bool(TRUE), Number(Finite(TRUE, Txt(<<"2", "5">>), -1)),
   String(<<Ch("\\"), 1>>)}

\* The Arrays and Objects of at most MaxItems items drawn from a set.
Containers(items) ==
  {Array(arr) : arr \in TextsOver(items, MaxItems)}
  \cup {Object(obj) : obj \in UNION {[ks -> items] :
          ks \in {ks \in SUBSET Keys : Cardinality(ks) <= MaxItems}}}

Nested ==
  {Array(<<>>), Array(<<Null>>), Object(<<>>), Object(insert(<<>>, Txt(<<"a">>), Bool(FALSE)))}

\* Values without NaN and infinities, nested up to two levels.
Values == Scalars \cup Containers(Leaves \cup Nested)

(***************************************************************************)
(* The state: one call of from_str at a time, on a text or on the          *)
(* serialization of a Value.                                               *)
(***************************************************************************)

VARIABLES
  parser,   \* the parser of the running call, Idle before the call
  source,   \* Ok(v) when the input is a serialization of the Value v
  calls     \* the parsers of the calls that run concurrently, one per call

vars == <<parser, source, calls>>

Running(fn) == parser.stack # <<>> /\ Top(parser).fn = fn

Done == parser.stack = <<>> /\ parser.ret # None

Init ==
  /\ parser = Idle
  /\ source = None
  /\ calls = <<>>

\* A caller passes a text to from_str.
CallFromStr ==
  /\ parser = Idle
  /\ \E t \in Texts : parser' = new(t)
  /\ UNCHANGED <<source, calls>>

\* A caller serializes a Value and passes the text to from_str.
RoundTrip ==
  /\ parser = Idle
  /\ \E v \in Values : \E t \in fmt(v) :
       /\ parser' = new(t)
       /\ source' = Ok(v)
  /\ UNCHANGED calls

FromStr == Running("from_str") /\ parser' = from_str_body(parser) /\ UNCHANGED <<source, calls>>
ParseValue == Running("parse_value") /\ parser' = parse_value(parser) /\ UNCHANGED <<source, calls>>
ParseString == Running("parse_string") /\ parser' = parse_string(parser) /\ UNCHANGED <<source, calls>>
ParseNumber == Running("parse_number") /\ parser' = parse_number(parser) /\ UNCHANGED <<source, calls>>
ParseArray == Running("parse_array") /\ parser' = parse_array(parser) /\ UNCHANGED <<source, calls>>
ParseObject == Running("parse_object") /\ parser' = parse_object(parser) /\ UNCHANGED <<source, calls>>
ParseLiteral == Running("parse_literal") /\ parser' = parse_literal(parser) /\ UNCHANGED <<source, calls>>

Next ==
  \/ CallFromStr
  \/ RoundTrip
  \/ FromStr
  \/ ParseValue
  \/ ParseString
  \/ ParseNumber
  \/ ParseArray
  \/ ParseObject
  \/ ParseLiteral

Spec == Init /\ [][Next]_vars

(***************************************************************************)
(* Notions the properties are stated with, defined on the input text       *)
(* alone.                                                                  *)
(***************************************************************************)

\* The call came from CallFromStr (a text) or from RoundTrip (a Value).
FromText == source = None
Accepted == Done /\ parser.ret.is = "Ok"
Rejected == Done /\ parser.ret.is = "Err"

\* The index of the first character of t, from index i on, that is not
\* whitespace; Len(t) + 1 when there is none.
SkipWhitespace(t, i) ==
  CHOOSE j \in i..(Len(t) + 1) :
    /\ \A k \in i..(j - 1) : is_whitespace(t[k])
    /\ j = Len(t) + 1 \/ ~is_whitespace(t[j])

OnlyWhitespaceFrom(t, i) == \A k \in i..Len(t) : is_whitespace(t[k])

\* The longest run of characters of a class in t that starts at index i.
LongestRun(t, i, class) ==
  LET n == CHOOSE k \in 0..(Len(t) + 1 - i) :
             /\ \A j \in i..(i + k - 1) : t[j] \in class
             /\ i + k = Len(t) + 1 \/ t[i + k] \notin class
  IN  SubSeq(t, i, i + n - 1)

Digits == {Ch("0"), Ch("1"), Ch("2"), Ch("3"), Ch("4"), Ch("5"), Ch("6"), Ch("7"),
           Ch("8"), Ch("9")}
Signs == {Ch("+"), Ch("-")}
NumberRunChars == Digits \cup Signs \cup {Ch("."), Ch("e"), Ch("E")}
Letters == {c \in 0..255 : is_alphabetic(c)}

AllDigits(t) == \A i \in DOMAIN t : t[i] \in Digits

\* sign? digit+
IsExponentDigits(t) ==
  \/ t # <<>> /\ AllDigits(t)
  \/ Len(t) > 1 /\ t[1] \in Signs /\ AllDigits(Tail(t))

\* Splits of t at a character of a set: <<before, after>>.
SplitsAt(t, seps) ==
  {<<SubSeq(t, 1, i - 1), SubSeq(t, i + 1, Len(t))>> : i \in {i \in DOMAIN t : t[i] \in seps}}

\* digit+ ('.' digit+)?
IsJsonMantissa(t) ==
  \/ t # <<>> /\ AllDigits(t)
  \/ \E sp \in SplitsAt(t, {Ch(".")}) :
       sp[1] # <<>> /\ AllDigits(sp[1]) /\ sp[2] # <<>> /\ AllDigits(sp[2])

\* The number grammar:  '-'? digit+ ('.' digit+)? ([eE] [+-]? digit+)?
IsJsonNumber(t) ==
  LET u == IF t # <<>> /\ t[1] = Ch("-") THEN Tail(t) ELSE t
  IN  \/ IsJsonMantissa(u)
      \/ \E sp \in SplitsAt(u, {Ch("e"), Ch("E")}) :
           IsJsonMantissa(sp[1]) /\ IsExponentDigits(sp[2])

\* digit+ | digit+ '.' digit* | digit* '.' digit+
IsFloatMantissa(t) ==
  \/ t # <<>> /\ AllDigits(t)
  \/ \E sp \in SplitsAt(t, {Ch(".")}) :
       AllDigits(sp[1]) /\ AllDigits(sp[2]) /\ sp[1] \o sp[2] # <<>>

\* The texts that parse as a 64-bit float: an optional sign, a mantissa with
\* a digit on at least one side of an optional point, an optional exponent.
IsFloatText(t) ==
  LET u == IF t # <<>> /\ t[1] \in Signs THEN Tail(t) ELSE t
  IN  \/ IsFloatMantissa(u)
      \/ \E sp \in SplitsAt(u, {Ch("e"), Ch("E")}) :
           IsFloatMantissa(sp[1]) /\ IsExponentDigits(sp[2])

\* A Value holds an infinity or a NaN at some depth.
RECURSIVE HasNonFinite(_)
HasNonFinite(v) ==
  CASE v.tag = "Number" -> is_non_finite(v.n)
    [] v.tag = "Array" -> \E i \in DOMAIN v.arr : HasNonFinite(v.arr[i])
    [] v.tag = "Object" -> \E k \in DOMAIN v.obj : HasNonFinite(v.obj[k])
    [] OTHER -> FALSE

\* Every serialization of v parses back to a Value equal to v.
ReparsesEqual(v) ==
  \A t \in fmt(v) :
    LET r == from_str(t) IN r.is = "Ok" /\ ValueEq(r.value, v)

(***************************************************************************)
(* The properties.                                                         *)
(***************************************************************************)

\* C1: round-trip law.  When from_str has run on a serialization of a Value
\* v without NaN and infinities, it has returned Ok with a Value
\* structurally equal to v.
C1_RoundTrip ==
  (source.is = "Ok" /\ Done) =>
    (parser.ret.is = "Ok" /\ ValueEq(parser.ret.value, source.value))

\* C1 witness: the round trip of an Object of two entries, one of them a
\* String with a backslash and a control character, has completed.
C1_Witness ==
  /\ source.is = "Ok"
  /\ Done
  /\ source.value.tag = "Object"
  /\ Cardinality(DOMAIN source.value.obj) = 2
  /\ \E k \in DOMAIN source.value.obj : source.value.obj[k] = String(<<Ch("\\"), 1>>)

\* C2: grammar closure.  When from_str has accepted a text with the Value v,
\* every serialization of v is accepted by from_str.
C2_GrammarClosure ==
  (FromText /\ Accepted) =>
    \A t \in fmt(parser.ret.value) : from_str(t).is = "Ok"

\* C2 witness: a text was accepted whose Value holds an infinity inside an
\* Array (the number 1e999).
C2_Witness ==
  /\ FromText
  /\ Accepted
  /\ parser.ret.value.tag = "Array"
  /\ HasNonFinite(parser.ret.value)

\* C3: semantic stability.  When from_str has accepted a text with the
\* Value v, parsing a serialization of v gives Ok with a Value structurally
\* equal to v.
C3_SemanticStability ==
  (FromText /\ Accepted) => ReparsesEqual(parser.ret.value)

\* C4: one top-level value.  When the value production has handed a Value
\* back to from_str, from_str returns TrailingCharacters if a character
\* that is not whitespace remains and Ok with that Value if none does; and
\* a call that has returned Ok has consumed its whole input.
C4_SingleValue ==
  /\ (Running("from_str") /\ Top(parser).pc = "value" /\ parser.ret.is = "Ok") =>
       from_str_body(parser).ret =
         IF OnlyWhitespaceFrom(parser.chars, parser.pos + 1)
         THEN Ok(parser.ret.value)
         ELSE Err(TrailingCharacters)
  /\ Accepted => parser.pos = Len(parser.chars)
  /\ (Rejected /\ parser.ret.err = TrailingCharacters) =>
       /\ parser.pos < Len(parser.chars)
       /\ ~is_whitespace(parser.chars[parser.pos + 1])

\* C4 witness: from_str has returned TrailingCharacters after a value and
\* whitespace, with the rest of the input unread.
C4_Witness ==
  /\ Rejected
  /\ parser.ret.err = TrailingCharacters
  /\ parser.pos >= 2
  /\ is_whitespace(parser.chars[parser.pos])

\* C5: the first error is terminal.  Once a production has raised a
\* ParseError, every step hands that same error one caller up and consumes
\* no character, so from_str returns exactly that error; and a call that has
\* returned has returned either a Value or a ParseError.
C5_FirstErrorTerminal ==
  [][ /\ (parser.stack # <<>> /\ parser.ret.is = "Err") =>
           /\ parser'.ret = parser.ret
           /\ parser'.pos = parser.pos
           /\ parser'.stack = SubSeq(parser.stack, 1, Len(parser.stack) - 1)
      /\ (parser'.stack = <<>> /\ parser' # Idle) =>
           \/ parser'.ret.is = "Ok" /\ parser'.ret.err = NoError
           \/ parser'.ret.is = "Err" /\ parser'.ret.err # NoError /\ parser'.ret.value = Null
    ]_vars

\* C5 witness: an error raised three calls below from_str is on its way up
\* while input remains unread.
C5_Witness ==
  /\ parser.ret.is = "Err"
  /\ Len(parser.stack) >= 4
  /\ parser.pos < Len(parser.chars)

\* C6: the number grammar.  When from_str has accepted a text as a Number,
\* the text, without the whitespace around it, matches
\* '-'? digit+ ('.' digit+)? ([eE] [+-]? digit+)?
C6_NumberGrammar ==
  (FromText /\ Accepted /\ parser.ret.value.tag = "Number") =>
    LET i == SkipWhitespace(parser.chars, 1)
    IN  IsJsonNumber(LongestRun(parser.chars, i, NumberRunChars))

\* C7: the number production.  For a text whose first character after
\* whitespace is a digit or '-', the production takes the longest run of
\* digits, '.', 'e', 'E', '+' and '-' from there: from_str returns
\* InvalidNumber if that run is not the text of a float, and otherwise a
\* Number, or TrailingCharacters for what follows the run; nothing else.
C7_NumberProduction ==
  LET t == parser.chars
      i == SkipWhitespace(t, 1)
      run == LongestRun(t, i, NumberRunChars)
      end == i + Len(run)
  IN  (FromText /\ Done /\ i <= Len(t) /\ t[i] \in Digits \cup {Ch("-")}) =>
        IF ~IsFloatText(run)
        THEN parser.ret = Err(InvalidNumber) /\ parser.pos = end - 1
        ELSE IF OnlyWhitespaceFrom(t, end)
        THEN parser.ret.is = "Ok" /\ parser.ret.value.tag = "Number"
        ELSE parser.ret = Err(TrailingCharacters)

\* C7 witness: from_str has returned InvalidNumber for a text with a sign
\* inside the run, such as 1-2.
C7_Witness ==
  /\ FromText
  /\ Rejected
  /\ parser.ret.err = InvalidNumber
  /\ \E i \in 2..Len(parser.chars) :
       parser.chars[i] \in Signs /\ parser.chars[i - 1] \in Digits

\* C8: the literal production.  For a text whose first character after
\* whitespace is 't', 'f' or 'n', the production takes the longest run of
\* alphabetic characters from there: the result is Bool(true), Bool(false)
\* or Null when the run is exactly true, false or null (TrailingCharacters
\* when more than whitespace follows), and otherwise InvalidLiteral
\* carrying exactly the run.
C8_LiteralProduction ==
  LET t == parser.chars
      i == SkipWhitespace(t, 1)
      run == LongestRun(t, i, Letters)
      end == i + Len(run)
      value == CASE run = Txt(<<"t", "r", "u", "e">>) -> Bool(TRUE)
                 [] run = Txt(<<"f", "a", "l", "s", "e">>) -> Bool(FALSE)
                 [] OTHER -> Null
  IN  (FromText /\ Done /\ i <= Len(t) /\ t[i] \in {Ch("t"), Ch("f"), Ch("n")}) =>
        IF run \notin {Txt(<<"t", "r", "u", "e">>), Txt(<<"f", "a", "l", "s", "e">>),
                       Txt(<<"n", "u", "l", "l">>)}
        THEN parser.ret = Err(InvalidLiteral(run)) /\ parser.pos = end - 1
        ELSE IF OnlyWhitespaceFrom(t, end)
        THEN parser.ret = Ok(value)
        ELSE parser.ret = Err(TrailingCharacters)

\* C8 witness: from_str has returned InvalidLiteral carrying a run that
\* extends true.
C8_Witness ==
  /\ FromText
  /\ Rejected
  /\ parser.ret.err.kind = "InvalidLiteral"
  /\ Len(parser.ret.err.text) > 4
  /\ SubSeq(parser.ret.err.text, 1, 4) = Txt(<<"t", "r", "u", "e">>)

\* The characters the escapes stand for.
EscapeTable ==
  (Ch("\"") :> Ch("\"")) @@ (Ch("\\") :> Ch("\\")) @@ (Ch("/") :> Ch("/"))
  @@ (Ch("b") :> 8) @@ (Ch("f") :> 12) @@ (Ch("n") :> 10) @@ (Ch("r") :> 13)
  @@ (Ch("t") :> 9)

\* The string production is about to read a backslash that a character
\* follows.
AtEscape ==
  /\ Running("parse_string")
  /\ Top(parser).pc = "loop"
  /\ peek(parser) = Ch("\\")
  /\ parser.pos + 2 <= Len(parser.chars)

\* C9: the escapes.  A backslash followed by one of " \ / b f n r t makes
\* the string production append the character the escape stands for;
\* a backslash followed by any other character except 'u' makes from_str
\* return InvalidEscapeSequence carrying that character.
C9_Escapes ==
  AtEscape =>
    LET escaped == parser.chars[parser.pos + 2]
        after == parse_string(parser)
    IN  IF escaped \in DOMAIN EscapeTable
        THEN /\ after.stack # <<>>
             /\ Top(after).s = Append(Top(parser).s, EscapeTable[escaped])
             /\ after.pos = parser.pos + 2
        ELSE escaped # Ch("u") => Run(parser).ret = Err(InvalidEscapeSequence(escaped))

\* C9 witness: from_str has returned InvalidEscapeSequence carrying a
\* character other than 'u', read inside a string that had decoded text
\* before it.
C9_Witness ==
  /\ Rejected
  /\ parser.ret.err.kind = "InvalidEscapeSequence"
  /\ parser.ret.err.c # Ch("u")
  /\ parser.pos >= 4
  /\ parser.chars[parser.pos - 1] = Ch("\\")

\* The four characters after a backslash and 'u' that the string production
\* is about to read.
HexAhead == SubSeq(parser.chars, parser.pos + 3, parser.pos + 6)

AtUnicodeEscape ==
  /\ AtEscape
  /\ parser.chars[parser.pos + 2] = Ch("u")
  /\ parser.pos + 6 <= Len(parser.chars)

\* C10: the \u escape.  It is accepted only when the four characters after
\* it are hexadecimal digits, and it then appends the scalar value with that
\* code; if one of the four is no hexadecimal digit, from_str returns
\* InvalidEscapeSequence('u').
C10_UnicodeEscape ==
  AtUnicodeEscape =>
    LET after == parse_string(parser)
        allHex == \A i \in 1..4 : hex_digit(HexAhead[i]) >= 0
        code == 4096 * hex_digit(HexAhead[1]) + 256 * hex_digit(HexAhead[2])
                + 16 * hex_digit(HexAhead[3]) + hex_digit(HexAhead[4])
    IN  IF allHex
        THEN after.ret.is # "Err" => Top(after).s = Append(Top(parser).s, code)
        ELSE Run(parser).ret = Err(InvalidEscapeSequence(Ch("u")))

\* The code the four hexadecimal digits ahead stand for; -1 when one of the
\* four is no hexadecimal digit.
CodeAhead ==
  IF \A i \in 1..4 : hex_digit(HexAhead[i]) >= 0
  THEN 4096 * hex_digit(HexAhead[1]) + 256 * hex_digit(HexAhead[2])
       + 16 * hex_digit(HexAhead[3]) + hex_digit(HexAhead[4])
  ELSE -1

Surrogates == 55296..57343

\* C11: surrogates.  Each \u escape is decoded on its own: when its four
\* hexadecimal digits give a code in D800..DFFF, the string production fails
\* at once, having read the escape and nothing after it, and from_str
\* returns InvalidEscapeSequence('u'), whatever follows the escape (a
\* matching low-surrogate escape included).
C11_Surrogates ==
  (AtUnicodeEscape /\ CodeAhead \in Surrogates) =>
    LET after == parse_string(parser)
    IN  /\ after.ret = Err(InvalidEscapeSequence(Ch("u")))
        /\ after.pos = parser.pos + 6
        /\ Run(parser).ret = Err(InvalidEscapeSequence(Ch("u")))

\* C11 witness: from_str has returned InvalidEscapeSequence('u') right after
\* the escape of a high surrogate that the escape of a low surrogate follows.
C11_Witness ==
  /\ Rejected
  /\ parser.ret.err = InvalidEscapeSequence(Ch("u"))
  /\ parser.pos >= 6
  /\ parser.pos + 6 <= Len(parser.chars)
  /\ SubSeq(parser.chars, parser.pos - 5, parser.pos) = Txt(<<"\\", "u", "d", "8", "3", "d">>)
  /\ SubSeq(parser.chars, parser.pos + 1, parser.pos + 6) = Txt(<<"\\", "u", "d", "e", "0", "0">>)

\* What the rest of a string literal, from index i of t on, comes to by the
\* grammar of strings: "closed" by an unescaped quote, "invalid" at an
\* escape that is none, or "unterminated" when t ends first (after a
\* backslash and within the four characters after \u included).
RECURSIVE ScanString(_, _)
ScanString(t, i) ==
  CASE i > Len(t) -> "unterminated"
    [] t[i] = Ch("\"") -> "closed"
    [] t[i] # Ch("\\") -> ScanString(t, i + 1)
    [] i + 1 > Len(t) -> "unterminated"
    [] t[i + 1] \in DOMAIN EscapeTable -> ScanString(t, i + 2)
    [] t[i + 1] # Ch("u") -> "invalid"
    [] i + 5 > Len(t) -> "unterminated"
    [] OTHER ->
         LET hex == SubSeq(t, i + 2, i + 5)
             code == 4096 * hex_digit(hex[1]) + 256 * hex_digit(hex[2])
                     + 16 * hex_digit(hex[3]) + hex_digit(hex[4])
         IN  IF (\A k \in 1..4 : hex_digit(hex[k]) >= 0) /\ code \notin Surrogates
             THEN ScanString(t, i + 6)
             ELSE "invalid"

\* C12: unterminated strings.  When the string production is inside a
\* literal and the input ends before an unescaped closing quote (directly
\* after a backslash or within the four characters after \u included),
\* with no invalid escape before the end, from_str returns
\* UnterminatedString.
C12_UnterminatedString ==
  (/\ Running("parse_string")
   /\ Top(parser).pc = "loop"
   /\ ScanString(parser.chars, parser.pos + 1) = "unterminated") =>
    Run(parser).ret = Err(UnterminatedString)

\* C12 witness: from_str has returned UnterminatedString for an input that
\* ends one to three characters after \u, inside an array or not.
C12_Witness ==
  /\ Rejected
  /\ parser.ret.err = UnterminatedString
  /\ parser.pos = Len(parser.chars)
  /\ \E i \in 2..(Len(parser.chars) - 2) :
       /\ parser.chars[i] = Ch("\\")
       /\ parser.chars[i + 1] = Ch("u")
       /\ ScanString(parser.chars, i) = "unterminated"
       /\ Len(parser.chars) - (i + 1) \in 1..3

\* C12 witness: from_str has returned UnterminatedString for an input that
\* ends right after a backslash inside a string.
C12_WitnessBackslash ==
  /\ Rejected
  /\ parser.ret.err = UnterminatedString
  /\ Len(parser.chars) >= 3
  /\ parser.chars[Len(parser.chars)] = Ch("\\")
  /\ parser.chars[Len(parser.chars) - 1] \notin {Ch("\\"), Ch("\"")}

\* The object production is about to parse a key: parse_value was called
\* from parse_object for the key and has not started.
AtKeyStart ==
  /\ Running("parse_value")
  /\ Top(parser).pc = "start"
  /\ Len(parser.stack) >= 2
  /\ parser.stack[Len(parser.stack) - 1].fn = "parse_object"
  /\ parser.stack[Len(parser.stack) - 1].pc = "key"

\* The object production has the Value parsed at a key position in hand.
AtKeyParsed ==
  /\ Running("parse_object")
  /\ Top(parser).pc = "key"
  /\ parser.ret.is = "Ok"

\* C13: keys are strings.  When the Value parsed at a key position is not a
\* String, the object production fails there with UnexpectedToken('"') and
\* from_str returns it; and a call whose key text does not begin with a
\* quote never returns a Value.
C13_KeysAreStrings ==
  /\ (AtKeyParsed /\ parser.ret.value.tag # "String") =>
       /\ parse_object(parser).ret = Err(UnexpectedToken(Ch("\"")))
       /\ Run(parser).ret = Err(UnexpectedToken(Ch("\"")))
  /\ AtKeyStart =>
       LET i == SkipWhitespace(parser.chars, parser.pos + 1)
       IN  (i > Len(parser.chars) \/ parser.chars[i] # Ch("\"")) =>
             Run(parser).ret.is = "Err"

\* C13 witness: from_str has returned UnexpectedToken('"') right after an
\* Array or a Number read where the first key of an object was due.
C13_Witness ==
  /\ Rejected
  /\ parser.ret.err = UnexpectedToken(Ch("\""))
  /\ parser.pos >= 2
  /\ parser.chars[1] = Ch("{")
  /\ parser.chars[2] \in {Ch("["), Ch("1")}
  /\ parser.chars[parser.pos] \in {Ch("]"), Ch("1")}

\* C14: the colon.  When the object production has a String key in hand,
\* it skips whitespace and reads the next character: a colon lets it go on
\* to the member's value, and any other character makes it fail with
\* UnexpectedToken(':'), the character that was due, having consumed the
\* character that was there; from_str returns that error.
C14_Colon ==
  (AtKeyParsed /\ parser.ret.value.tag = "String") =>
    LET i == SkipWhitespace(parser.chars, parser.pos + 1)
        after == parse_object(parser)
    IN  i <= Len(parser.chars) =>
          /\ after.pos = i
          /\ IF parser.chars[i] = Ch(":")
             THEN /\ after.ret.is # "Err"
                  /\ Top(after).fn = "parse_value"
                  /\ after.stack[Len(after.stack) - 1].key = parser.ret.value.s
             ELSE /\ after.ret = Err(UnexpectedToken(Ch(":")))
                  /\ Run(parser).ret = Err(UnexpectedToken(Ch(":")))

\* C14 witness: from_str has returned UnexpectedToken(':') having consumed
\* the character it found, after whitespace, where the colon was due.
C14_Witness ==
  /\ Rejected
  /\ parser.ret.err = UnexpectedToken(Ch(":"))
  /\ parser.pos >= 3
  /\ parser.pos < Len(parser.chars)
  /\ parser.chars[parser.pos] \notin {Ch(":"), Ch(" ")}
  /\ parser.chars[parser.pos - 1] = Ch(" ")
  /\ parser.chars[parser.pos - 2] = Ch("\"")

\* An array or object production is at a token boundary: before an element
\* or a key, after a key (where the colon is due), or after an element or
\* a member value (where a comma or the closing bracket is due).
BeforeItem ==
  /\ Running("parse_value")
  /\ Top(parser).pc = "start"
  /\ Len(parser.stack) >= 2
  /\ parser.stack[Len(parser.stack) - 1].fn \in {"parse_array", "parse_object"}

AfterItem ==
  /\ \/ Running("parse_array") /\ Top(parser).pc = "elem"
     \/ Running("parse_object") /\ Top(parser).pc = "value"
  /\ parser.ret.is = "Ok"

AtTokenBoundary ==
  \/ BeforeItem
  \/ AtKeyParsed /\ parser.ret.value.tag = "String"
  \/ AfterItem

\* C15: end of input inside a container.  When an array or object
\* production is at a token boundary and only whitespace remains, from_str
\* returns UnexpectedEndOfInput.
C15_EndOfInput ==
  (AtTokenBoundary /\ OnlyWhitespaceFrom(parser.chars, parser.pos + 1)) =>
    Run(parser).ret = Err(UnexpectedEndOfInput)

\* C15, without the place where the colon is due: what the code does hold.
C15_EndOfInputElsewhere ==
  ((BeforeItem \/ AfterItem) /\ OnlyWhitespaceFrom(parser.chars, parser.pos + 1)) =>
    Run(parser).ret = Err(UnexpectedEndOfInput)

\* C16: separators.  After an element of an array or a member value of an
\* object, and whitespace, the next character is read: the matching closing
\* bracket ends the container, a comma lets the production go on to the
\* next element or key, and any other character c makes it fail with
\* UnexpectedToken(c), which from_str returns.
C16_Separators ==
  AfterItem =>
    LET i == SkipWhitespace(parser.chars, parser.pos + 1)
        inArray == Top(parser).fn = "parse_array"
        close == IF inArray THEN Ch("]") ELSE Ch("}")
        after == IF inArray THEN parse_array(parser) ELSE parse_object(parser)
    IN  i <= Len(parser.chars) =>
          LET c == parser.chars[i]
          IN  /\ after.pos = i
              /\ CASE c = close ->
                        /\ Len(after.stack) = Len(parser.stack) - 1
                        /\ after.ret.is = "Ok"
                        /\ after.ret.value.tag = (IF inArray THEN "Array" ELSE "Object")
                   [] c = Ch(",") ->
                        /\ after.ret.is # "Err"
                        /\ Len(after.stack) = Len(parser.stack) + 1
                        /\ Top(after) = Frame("parse_value", "start")
                   [] OTHER ->
                        /\ after.ret = Err(UnexpectedToken(c))
                        /\ Run(parser).ret = Err(UnexpectedToken(c))

\* C16 witness: from_str has returned UnexpectedToken carrying the
\* character it read, after whitespace, where a comma or the closing
\* bracket of an array was due.
C16_Witness ==
  /\ Rejected
  /\ parser.ret.err.kind = "UnexpectedToken"
  /\ parser.pos >= 4
  /\ parser.chars[1] = Ch("[")
  /\ parser.chars[parser.pos] = parser.ret.err.c
  /\ parser.chars[parser.pos - 1] = Ch(" ")
  /\ parser.chars[parser.pos - 2] = Ch("1")

\* The error that the step about to be taken raises, NoError when it raises
\* none: no error is on its way up, and the step returns one.
Raised ==
  IF parser.stack # <<>> /\ parser.ret.is # "Err" THEN Step(parser).ret.err ELSE NoError

\* The character after the whitespace at the cursor; NoChar at the end.
SeenAhead ==
  LET i == SkipWhitespace(parser.chars, parser.pos + 1)
  IN  IF i <= Len(parser.chars) THEN parser.chars[i] ELSE NoChar

AfterMember == AfterItem /\ Top(parser).fn = "parse_object"

\* The entries an object has once a member is written over them: the
\* member's key maps to the member's value, every other key as before.
Overwritten(obj, key, value) ==
  [k \in DOMAIN obj \cup {key} |-> IF k = key THEN value ELSE obj[k]]

\* C18: duplicate keys.  Each member of an object text is written over the
\* entries of the members before it, so a key has one entry, with the
\* value of its last occurrence, and a key that occurs again raises no
\* error: the production goes on at a comma and returns the Object at the
\* closing brace.
C18_LastWriteWins ==
  AfterMember =>
    LET f == Top(parser)
        entries == Overwritten(f.obj, f.key, parser.ret.value)
        after == parse_object(parser)
    IN  CASE SeenAhead = Ch("}") -> after.ret = Ok(Object(entries))
          [] SeenAhead = Ch(",") ->
               /\ after.ret.is # "Err"
               /\ after.stack[Len(parser.stack)].obj = entries
          [] OTHER -> after.ret.is = "Err"

\* C18 witness: from_str has accepted an object text in which the key a
\* occurs twice, with 1 and then with 2, and has returned an Object with
\* the one entry a: 2.
C18_Witness ==
  /\ Accepted
  /\ Len(parser.chars) = 13
  /\ SubSeq(parser.chars, 2, 6) = Txt(<<"\"", "a", "\"", ":", "1">>)
  /\ SubSeq(parser.chars, 8, 12) = Txt(<<"\"", "a", "\"", ":", "2">>)
  /\ parser.ret.value.tag = "Object"
  /\ DOMAIN parser.ret.value.obj = {Txt(<<"a">>)}
  /\ parser.ret.value.obj[Txt(<<"a">>)] = Number(f64_from_str(Txt(<<"2">>)).n)

\* The index of the last character of t that is not whitespace; 0 when
\* there is none.
LastNonWhitespace(t) ==
  CHOOSE j \in 0..Len(t) :
    /\ \A k \in (j + 1)..Len(t) : is_whitespace(t[k])
    /\ j = 0 \/ ~is_whitespace(t[j])

\* The text between the brackets of a text that is one array.
Inner(t) == SubSeq(t, SkipWhitespace(t, 1) + 1, LastNonWhitespace(t) - 1)

CommaIndexes(s) == {i \in DOMAIN s : s[i] = Ch(",")}

\* The k-th of the texts that the commas of s separate.
Segment(s, k) ==
  LET cut(n) == IF n = 0 THEN 0
                ELSE IF n > Cardinality(CommaIndexes(s)) THEN Len(s) + 1
                ELSE CHOOSE i \in CommaIndexes(s) :
                       Cardinality({j \in CommaIndexes(s) : j < i}) = n - 1
  IN  SubSeq(s, cut(k - 1) + 1, cut(k) - 1)

Quotes(s) == Cardinality({i \in DOMAIN s : s[i] = Ch("\"")})

\* The elements of the array text are scalars and its commas separate them:
\* no bracket and no backslash, and no comma inside a string.
IsFlat(s) ==
  /\ \A i \in DOMAIN s : s[i] \notin {Ch("["), Ch("]"), Ch("{"), Ch("}"), Ch("\\")}
  /\ \A k \in 1..(Cardinality(CommaIndexes(s)) + 1) : Quotes(Segment(s, k)) % 2 = 0

\* The character after the opening bracket at the cursor and the whitespace
\* that follows it; NoChar at the end.
SeenAfterOpening ==
  LET i == SkipWhitespace(parser.chars, parser.pos + 2)
  IN  IF i <= Len(parser.chars) THEN parser.chars[i] ELSE NoChar

\* The array production has an element in hand.
AfterElement == AfterItem /\ Top(parser).fn = "parse_array"

\* C19: arrays keep order and count.  Each element parsed is appended to
\* the elements before it, and the Array returned at the closing bracket
\* holds them in that order; [] and {} with whitespace inside give the
\* empty Array and the empty Object; and an accepted array text of n
\* scalar elements gives an Array of length n whose i-th element is the
\* Value of the i-th element text.
C19_ArrayOrder ==
  /\ AfterElement =>
       LET f == Top(parser)
           elements == Append(f.arr, parser.ret.value)
           after == parse_array(parser)
       IN  CASE SeenAhead = Ch("]") -> after.ret = Ok(Array(elements))
             [] SeenAhead = Ch(",") ->
                  /\ after.ret.is # "Err"
                  /\ after.stack[Len(parser.stack)].arr = elements
             [] OTHER -> after.ret.is = "Err"
  /\ (Running("parse_array") /\ Top(parser).pc = "start" /\ SeenAfterOpening = Ch("]")) =>
       parse_array(parser).ret = Ok(Array(<<>>))
  /\ (Running("parse_object") /\ Top(parser).pc = "start" /\ SeenAfterOpening = Ch("}")) =>
       parse_object(parser).ret = Ok(Object(<<>>))
  /\ (Accepted /\ parser.ret.value.tag = "Array" /\ IsFlat(Inner(parser.chars))) =>
       LET s == Inner(parser.chars)
           arr == parser.ret.value.arr
       IN  IF OnlyWhitespaceFrom(s, 1) THEN arr = <<>>
           ELSE /\ Len(arr) = Cardinality(CommaIndexes(s)) + 1
                /\ \A i \in DOMAIN arr : from_str(Segment(s, i)) = Ok(arr[i])

\* C19 witness: from_str has accepted an array text of three different
\* scalar elements, a string among them.
C19_Witness ==
  /\ Accepted
  /\ parser.ret.value.tag = "Array"
  /\ IsFlat(Inner(parser.chars))
  /\ Len(parser.ret.value.arr) = 3
  /\ parser.ret.value.arr[1].tag = "Number"
  /\ parser.ret.value.arr[2].tag = "String"
  /\ parser.ret.value.arr[3].tag = "Null"

\* Whitespace texts put around an input: none, a space, a line feed and a
\* tab, a carriage return and a no-break space.
Paddings == {<<>>, <<Ch(" ")>>, <<LF, TAB>>, <<CR, 160>>}

\* C20: whitespace around the value.  When from_str has accepted a text t
\* that a caller passed, it returns the same result for t with any
\* whitespace put before and after it.
C20_WhitespaceAround ==
  (FromText /\ Accepted) =>
    \A w1 \in Paddings, w2 \in Paddings :
      from_str(w1 \o parser.chars \o w2) = parser.ret

\* C20 witness: from_str has accepted a literal with whitespace before and
\* after it, with the result it gives for the text without the whitespace.
C20_Witness ==
  /\ Accepted
  /\ parser.ret.value.tag = "Bool"
  /\ Len(parser.chars) >= 6
  /\ is_whitespace(parser.chars[1])
  /\ is_whitespace(parser.chars[Len(parser.chars)])
  /\ from_str(SubSeq(parser.chars, 2, Len(parser.chars) - 1)) = parser.ret

\* The value production is about to start.
AtValueStart == Running("parse_value") /\ Top(parser).pc = "start"

\* The production that a character selects at the value production; "" when
\* it selects none.
Selected(c) ==
  CASE c = Ch("{") -> "parse_object"
    [] c = Ch("[") -> "parse_array"
    [] c = Ch("\"") -> "parse_string"
    [] c \in {Ch("t"), Ch("f"), Ch("n")} -> "parse_literal"
    [] c \in Digits \cup {Ch("-")} -> "parse_number"
    [] OTHER -> ""

\* C21: dispatch.  The value production skips whitespace and lets the next
\* character select the production, which starts on that character; any
\* other character c gives UnexpectedToken(c) and stays unread, and the end
\* of input gives UnexpectedEndOfInput.  from_str returns these errors.
C21_Dispatch ==
  AtValueStart =>
    LET c == SeenAhead
        after == parse_value(parser)
    IN  /\ after.pos = SkipWhitespace(parser.chars, parser.pos + 1) - 1
        /\ CASE c = NoChar ->
                  /\ after.ret = Err(UnexpectedEndOfInput)
                  /\ Run(parser).ret = Err(UnexpectedEndOfInput)
             [] Selected(c) = "" ->
                  /\ after.ret = Err(UnexpectedToken(c))
                  /\ Run(parser).ret = Err(UnexpectedToken(c))
             [] OTHER ->
                  /\ after.ret.is # "Err"
                  /\ Len(after.stack) = Len(parser.stack) + 1
                  /\ Top(after) = Frame(Selected(c), "start")

\* C21 witness: from_str has returned UnexpectedToken for a text that is
\* whitespace and then a character that selects no production, which
\* stands unread.
C21_Witness ==
  /\ Rejected
  /\ parser.pos >= 1
  /\ parser.pos < Len(parser.chars)
  /\ \A k \in 1..parser.pos : is_whitespace(parser.chars[k])
  /\ parser.ret.err = UnexpectedToken(parser.chars[parser.pos + 1])

\* C21 witness: from_str has returned UnexpectedEndOfInput for a text of
\* whitespace only.
C21_WitnessEnd ==
  /\ Rejected
  /\ parser.chars # <<>>
  /\ OnlyWhitespaceFrom(parser.chars, 1)
  /\ parser.ret.err = UnexpectedEndOfInput

(***************************************************************************)
(* The serializer on any Value: a caller formats a Value, NaN and the       *)
(* infinities included, and holds the text (here as the input of a parser   *)
(* that has not started).                                                   *)
(***************************************************************************)

NonFinite == {F64NaN, F64Inf(FALSE), F64Inf(TRUE)}

\* What the Arrays and Objects hold: scalars, non-finite Numbers, a String
\* with escapes, and Arrays and an Object that hold Numbers themselves.
SerializerItems ==
  {Null, Bool(TRUE), Number(F64NaN), Number(F64Inf(TRUE)), String(<<Ch("\\"), 1>>),
   Array(<<>>), Array(<<Number(F64Inf(TRUE)), Null>>),
   Object(insert(<<>>, Txt(<<"a">>), Number(Finite(TRUE, Txt(<<"2", "5">>), -1))))}

\* Every scalar of the round trip, the non-finite Numbers, and Arrays and
\* Objects of the items above.
SerializerValues ==
  Scalars
  \cup {Number(n) : n \in NonFinite}
  \cup Containers(SerializerItems)

\* to_string(): Display::fmt into a String.
to_string ==
  /\ parser = Idle
  /\ \E v \in SerializerValues : \E t \in fmt(v) :
       /\ parser' = new(t)
       /\ source' = Ok(v)
  /\ UNCHANGED calls

SpecToString == Init /\ [][to_string]_vars

\* A text has been written for a Value.
Written == source.is = "Ok" /\ parser # Idle

\* The Value with every NaN and infinity replaced by Null.
RECURSIVE WithNulls(_)
WithNulls(v) ==
  CASE v.tag = "Number" -> IF v.n.cls \in {"nan", "inf"} THEN Null ELSE v
    [] v.tag = "Array" -> Array([i \in DOMAIN v.arr |-> WithNulls(v.arr[i])])
    [] v.tag = "Object" -> Object([k \in DOMAIN v.obj |-> WithNulls(v.obj[k])])
    [] OTHER -> v

\* The characters of a plain decimal: a sign, digits, a point.
DecimalChars == Digits \cup {Ch("-"), Ch(".")}

\* C22: the serializer and the non-finite Numbers.  Every Value has a text;
\* a Number that is NaN or an infinity is written as null, at the top level
\* and at any depth (the text is a text of the Value with Null in their
\* place); any other Number is written as a plain decimal that reads back
\* as that Number.
C22_NonFiniteAsNull ==
  /\ parser = Idle => \A v \in SerializerValues : fmt(v) # {}
  /\ Written =>
       LET v == source.value
           t == parser.chars
       IN  /\ t \in fmt(WithNulls(v))
           /\ v.tag = "Number" =>
                IF v.n.cls \in {"nan", "inf"}
                THEN t = Txt(<<"n", "u", "l", "l">>)
                ELSE /\ \A i \in DOMAIN t : t[i] \in DecimalChars
                     /\ IsJsonNumber(t)
                     /\ f64_eq(f64_from_str(t).n, v.n)

\* C22 witness: an Array that holds an Array with a negative infinity has
\* been written, with null in its place.
C22_Witness ==
  /\ Written
  /\ source.value.tag = "Array"
  /\ Len(source.value.arr) = 2
  /\ source.value.arr[1] = Array(<<Number(F64Inf(TRUE)), Null>>)
  /\ source.value.arr[2] = Number(F64NaN)
  /\ parser.chars = Txt(<<"[", "[", "n", "u", "l", "l", ",", "n", "u", "l", "l", "]", ",",
                          "n", "u", "l", "l", "]">>)

\* The letter of the two-character escape of a character that has one.
EscapeLetter ==
  (Ch("\"") :> Ch("\"")) @@ (Ch("\\") :> Ch("\\")) @@ (Ch("/") :> Ch("/"))
  @@ (8 :> Ch("b")) @@ (12 :> Ch("f")) @@ (10 :> Ch("n")) @@ (13 :> Ch("r"))
  @@ (9 :> Ch("t"))

LowerHex == Txt(<<"0", "1", "2", "3", "4", "5", "6", "7", "8", "9",
                  "a", "b", "c", "d", "e", "f">>)

\* What one character of a string is written as.
WrittenChar(c) ==
  IF c \in DOMAIN EscapeLetter THEN <<Ch("\\"), EscapeLetter[c]>>
  ELSE IF c <= 31
  THEN <<Ch("\\"), Ch("u"), Ch("0"), Ch("0"), LowerHex[(c \div 16) + 1], LowerHex[(c % 16) + 1]>>
  ELSE <<c>>

\* What a string is written as, without the quotes.
RECURSIVE WrittenChars(_)
WrittenChars(s) ==
  IF s = <<>> THEN <<>> ELSE WrittenChar(Head(s)) \o WrittenChars(Tail(s))

WrittenString(s) == <<Ch("\"")>> \o WrittenChars(s) \o <<Ch("\"")>>

\* C23: strings.  A String is written between double quotes, each character
\* on its own: the quote, the backslash, the slash and U+0008, U+000C,
\* U+000A, U+000D, U+0009 as their two-character escapes, any other
\* character up to U+001F as \u and four lowercase hexadecimal digits, and
\* any other character unchanged.
C23_StringEscapes ==
  (Written /\ source.value.tag = "String") =>
    parser.chars = WrittenString(source.value.s)

\* C23 witness: the String of a slash and U+001F has been written.
C23_Witness ==
  /\ Written
  /\ source.value = String(<<Ch("/"), 31>>)
  /\ parser.chars = Txt(<<"\"", "\\", "/", "\\", "u", "0", "0", "1", "f", "\"">>)

\* The texts of a sequence, one after the other, with one comma between
\* each two.
RECURSIVE CommaSeparated(_)
CommaSeparated(texts) ==
  IF texts = <<>> THEN <<>>
  ELSE IF Len(texts) = 1 THEN texts[1]
  ELSE texts[1] \o <<Ch(",")>> \o CommaSeparated(Tail(texts))

\* C24: arrays.  An Array is written as '[', a text of each element in the
\* order of the elements with one comma between each two and nothing else,
\* and ']'; the empty Array is written [] and the empty Object {}.
C24_ArrayText ==
  /\ (Written /\ source.value.tag = "Array") =>
       LET arr == source.value.arr
       IN  \E texts \in [DOMAIN arr -> UNION {fmt(arr[i]) : i \in DOMAIN arr}] :
             /\ \A i \in DOMAIN arr : texts[i] \in fmt(arr[i])
             /\ parser.chars = <<Ch("[")>> \o CommaSeparated(texts) \o <<Ch("]")>>
  /\ (Written /\ source.value = Array(<<>>)) => parser.chars = Txt(<<"[", "]">>)
  /\ (Written /\ source.value = Object(<<>>)) => parser.chars = Txt(<<"{", "}">>)

\* C24 witness: an Array of a String and an empty Array has been written.
C24_Witness ==
  /\ Written
  /\ source.value = Array(<<String(<<Ch("\\"), 1>>), Array(<<>>)>>)
  /\ parser.chars = Txt(<<"[", "\"", "\\", "\\", "\\", "u", "0", "0", "0", "1", "\"", ",",
                          "[", "]", "]">>)

\* The sequences in which every element of a set occurs exactly once.
Orders(S) ==
  {ord \in [1..Cardinality(S) -> S] :
     \A i \in DOMAIN ord, j \in DOMAIN ord : ord[i] = ord[j] => i = j}

\* C25: objects.  An Object is written as '{', its entries in some order,
\* each exactly once, with one comma between each two, and '}'; an entry
\* is its key, written as a String is, a colon, and a text of its value.
C25_ObjectText ==
  (Written /\ source.value.tag = "Object") =>
    LET obj == source.value.obj
    IN  \E ord \in Orders(DOMAIN obj) :
          \E texts \in [DOMAIN ord -> UNION {fmt(obj[k]) : k \in DOMAIN obj}] :
            /\ \A i \in DOMAIN ord : texts[i] \in fmt(obj[ord[i]])
            /\ parser.chars =
                 <<Ch("{")>>
                 \o CommaSeparated([i \in DOMAIN ord |->
                                      WrittenString(ord[i]) \o <<Ch(":")>> \o texts[i]])
                 \o <<Ch("}")>>

\* C25 witness: an Object of two entries, one with a key that holds a quote
\* and a line feed, has been written with that entry second.
C25_Witness ==
  /\ Written
  /\ source.value.tag = "Object"
  /\ DOMAIN source.value.obj = {Txt(<<"a">>), <<Ch("\""), LF>>}
  /\ source.value.obj[Txt(<<"a">>)] = Null
  /\ source.value.obj[<<Ch("\""), LF>>] = Bool(TRUE)
  /\ parser.chars = Txt(<<"{", "\"", "a", "\"", ":", "n", "u", "l", "l", ",",
                          "\"", "\\", "\"", "\\", "n", "\"", ":", "t", "r", "u", "e", "}">>)

\* Faulty variant of step_call: the calls share one cursor, which the step
\* moves for all of them.
step_call_shared_cursor(ps, i) ==
  LET after == Step(ps[i])
  IN  [j \in DOMAIN ps |-> IF j = i THEN after ELSE [ps[j] EXCEPT !.pos = after.pos]]

\* One step of the i-th of the calls ps: the call's own Parser is read and
\* written, nothing else.
step_call(ps, i) == [ps EXCEPT ![i] = Step(ps[i])]

(***************************************************************************)
(* Concurrent calls of from_str: each call has its own Parser, and the      *)
(* steps of the calls interleave in any order.                              *)
(***************************************************************************)

MaxCalls == 2

\* Inputs of the concurrent calls: an object, a string with an escape after
\* whitespace, and an array text that is rejected.
ConcurrentTexts ==
  {
    Txt(<<"{", "\"", "a", "\"", ":", "1", "}">>),
    Txt(<<" ", "\"", "\\", "n", "\"">>),
    Txt(<<"[", "1", " ", "2">>)
  }

\* A caller starts another call of from_str while the calls before it run
\* or have returned.
Spawn ==
  /\ Len(calls) < MaxCalls
  /\ \E t \in ConcurrentTexts : calls' = Append(calls, new(t))
  /\ UNCHANGED <<parser, source>>

\* One of the running calls takes its next step.
StepCall ==
  /\ \E i \in DOMAIN calls :
       /\ calls[i].stack # <<>>
       /\ calls' = step_call(calls, i)
  /\ UNCHANGED <<parser, source>>

ConcurrentNext ==
  \/ Spawn
  \/ StepCall

SpecConcurrent == Init /\ [][ConcurrentNext]_vars

\* C26: independent calls.  Under every interleaving of the steps of the
\* calls, each call is on the way to the result that from_str gives for its
\* input alone: run alone from where it stands it returns that result, and
\* so a call that has returned has returned it.
C26_IndependentCalls ==
  \A i \in DOMAIN calls :
    /\ Run(calls[i]).ret = from_str(calls[i].chars)
    /\ calls[i].stack = <<>> => calls[i].ret = from_str(calls[i].chars)

\* C26 witness: two calls on different inputs have interleaved: the second
\* has returned a Value while the first, started before it, is inside its
\* input, and the first is on the way to an error.
C26_Witness ==
  /\ Len(calls) = 2
  /\ calls[1].chars # calls[2].chars
  /\ calls[1].stack # <<>>
  /\ calls[1].pos >= 2
  /\ calls[1].pos < Len(calls[1].chars)
  /\ calls[2].stack = <<>>
  /\ calls[2].ret.is = "Ok"
  /\ from_str(calls[1].chars).is = "Err"

(***************************************************************************)
(* Termination.                                                            *)
(***************************************************************************)

\* The state in which the call that runs at depth `depth` has returned.
RECURSIVE ReturnOf(_, _)
ReturnOf(p, depth) == IF Len(p.stack) < depth THEN p ELSE ReturnOf(Step(p), depth)

\* The steps a call on the stack takes without consuming a character: its
\* return, and before that, for a call that has not begun, its first step
\* and those of the calls it makes before a character is consumed.
Due(frame) ==
  CASE frame.pc # "start" -> 1
    [] frame.fn = "from_str" -> 6
    [] frame.fn = "parse_value" -> 4
    [] OTHER -> 2

RECURSIVE DueOf(_)
DueOf(stack) == IF stack = <<>> THEN 0 ELSE Due(Head(stack)) + DueOf(Tail(stack))

\* A measure of the work left: five steps for each character not yet
\* consumed, and the steps due to the calls on the stack.
Rank(p) == 5 * (Len(p.chars) - p.pos) + DueOf(p.stack)

InLoop(p) == p.stack # <<>> /\ Top(p).pc # "start"

\* C27: from_str terminates on every input.  Every step lowers the measure
\* Rank, which is never negative and is 5 * n + 6 when a call on a text of
\* n characters begins, so the call returns within 5 * n + 6 steps; a step
\* of a loop (a step of a call past its first) consumes at least one
\* character or returns; the skipped whitespace is consumed character by
\* character; and a call of parse_value on a text a caller passed that
\* returns Ok has consumed at least one character.
C27_Terminates ==
  /\ parser.stack # <<>> =>
       LET q == Step(parser)
       IN  /\ Rank(q) < Rank(parser)
           /\ q.pos >= parser.pos
           /\ InLoop(parser) => q.pos > parser.pos \/ Len(q.stack) < Len(parser.stack)
  /\ parser # Idle =>
       LET q == consume_whitespace(parser)
       IN  /\ q.pos \in parser.pos..Len(parser.chars)
           /\ \A i \in (parser.pos + 1)..q.pos : is_whitespace(parser.chars[i])
  /\ parser # Idle =>
       /\ Rank(parser) >= 0
       /\ parser = new(parser.chars) => Rank(parser) = 5 * Len(parser.chars) + 6
  /\ FromText /\ AtValueStart =>
       LET r == ReturnOf(parser, Len(parser.stack))
       IN  r.ret.is = "Ok" => r.pos > parser.pos

\* An array of two elements has been parsed to its end: the loops of the
\* array and of a number have run, and the call has returned.
C27_Witness ==
  /\ Accepted
  /\ FromText
  /\ parser.ret.value.tag = "Array"
  /\ Len(parser.ret.value.arr) = 2
  /\ \E i \in DOMAIN parser.chars : is_whitespace(parser.chars[i])

(***************************************************************************)
(* The cursor.                                                             *)
(***************************************************************************)

\* The parser p on the first n characters of its input only.
Cut(p, n) ==
  [p EXCEPT !.chars = SubSeq(@, 1, IF n < Len(@) THEN n ELSE Len(@))]

\* C28: no backtracking.  In every step of a call the input stays as it is
\* and the cursor stays or moves on, within the input, so that a character
\* once consumed is never before the cursor again; and the step is decided
\* by the characters it consumes and at most one character after them: on
\* the input cut off after that character the step is the same.
C28_NoBacktracking ==
  [][parser # Idle =>
       /\ parser'.chars = parser.chars
       /\ parser'.pos >= parser.pos
       /\ parser'.pos <= Len(parser.chars)
       /\ Step(Cut(parser, parser'.pos + 1)) = Cut(parser', parser'.pos + 1)]_vars

\* A number has been parsed up to the comma after it: the comma was peeked
\* to end the number, is not consumed, and more input follows it.
C28_Witness ==
  /\ Running("parse_value")
  /\ Top(parser).pc = "ret"
  /\ parser.ret.is = "Ok"
  /\ parser.ret.value.tag = "Number"
  /\ peek(parser) = Ch(",")
  /\ parser.pos + 2 <= Len(parser.chars)

(***************************************************************************)
(* Trailing commas.                                                        *)
(***************************************************************************)

\* The text t with the text ins put in after its first i characters.
Inserted(t, i, ins) == SubSeq(t, 1, i) \o ins \o SubSeq(t, i + 1, Len(t))

\* The closing bracket of the array or object production that is running.
Closing == IF Top(parser).fn = "parse_array" THEN Ch("]") ELSE Ch("}")

\* In a text passed by a caller, an element or a member has been parsed
\* and, after whitespace, the closing bracket follows.
AtLastItem ==
  /\ FromText
  /\ AfterItem
  /\ SeenAhead = Closing

\* In a text passed by a caller, an array or object production begins and,
\* after the opening bracket and whitespace, the closing bracket follows.
AtEmptyContainer ==
  /\ FromText
  /\ Running("parse_array") \/ Running("parse_object")
  /\ Top(parser).pc = "start"
  /\ SeenAfterOpening = Closing

\* The texts with a comma, and whitespace or none after it, put in between
\* the characters first + 1 and last of the text of the running call.
WithComma(first, last) ==
  {Inserted(parser.chars, i, <<Ch(",")>> \o pad) : i \in first..(last - 1), pad \in Paddings}

\* C29 as stated: a comma directly before the closing bracket of any array
\* or object, whitespace or none around it, gives UnexpectedToken of that
\* bracket.  It fails for the empty array and the empty object.
C29_CommaBeforeClosing ==
  /\ AtLastItem =>
       \A t \in WithComma(parser.pos, SkipWhitespace(parser.chars, parser.pos + 1)) :
         from_str(t) = Err(UnexpectedToken(Closing))
  /\ AtEmptyContainer =>
       \A t \in WithComma(parser.pos + 1, SkipWhitespace(parser.chars, parser.pos + 2)) :
         from_str(t) = Err(UnexpectedToken(Closing))

\* C29: trailing commas are rejected.  A comma after the last element of an
\* array, whitespace or none around it, gives UnexpectedToken(']'), and a
\* comma after the last member of an object gives UnexpectedToken('}');
\* a comma in an array or object that has no element or member gives
\* UnexpectedToken(',').
C29_TrailingComma ==
  /\ AtLastItem =>
       \A t \in WithComma(parser.pos, SkipWhitespace(parser.chars, parser.pos + 1)) :
         from_str(t) = Err(UnexpectedToken(Closing))
  /\ AtEmptyContainer =>
       \A t \in WithComma(parser.pos + 1, SkipWhitespace(parser.chars, parser.pos + 2)) :
         from_str(t) = Err(UnexpectedToken(Ch(",")))

\* An array production has its last element and, after whitespace, the
\* closing bracket ahead.
C29_Witness ==
  /\ AtLastItem
  /\ FromText
  /\ Closing = Ch("]")
  /\ is_whitespace(peek(parser))

\* from_str has returned UnexpectedToken('}') for a text whose last member
\* is followed by a comma, whitespace and the closing bracket.
C29_WitnessObject ==
  /\ Rejected
  /\ parser.ret.err = UnexpectedToken(Ch("}"))
  /\ peek(parser) = Ch("}")
  /\ parser.pos >= 3
  /\ is_whitespace(parser.chars[parser.pos])
  /\ parser.chars[parser.pos - 1] = Ch(",")
  /\ parser.chars[parser.pos - 2] = Ch("1")

(***************************************************************************)
(* Whitespace between tokens.                                              *)
(***************************************************************************)

\* An array or object production begins: the cursor is before its opening
\* bracket.
AtOpening ==
  /\ Running("parse_array") \/ Running("parse_object")
  /\ Top(parser).pc = "start"

\* The places of a text passed by a caller at which a token boundary
\* inside an array or object lies, given the state of the call: after the
\* opening bracket; before an element or a key, which is after '[', '{' or
\* ',', and before a member value, which is after ':'; after a key, which
\* is before ':'; after an element or member, which is before ',', ']' or
\* '}'.
Boundaries ==
  IF ~FromText THEN {}
  ELSE IF AtOpening THEN {parser.pos + 1}
  ELSE IF AtTokenBoundary THEN {parser.pos}
  ELSE {}

\* C30: whitespace between tokens is insignificant.  When a text is
\* accepted, the text with whitespace put in at a token boundary of an
\* array or object is accepted too, with a structurally equal Value.
C30_WhitespaceBetween ==
  \A i \in Boundaries :
    LET alone == Run(parser).ret
    IN  alone.is = "Ok" =>
          \A pad \in Paddings \ {<<>>} :
            LET padded == from_str(Inserted(parser.chars, i, pad))
            IN  /\ padded.is = "Ok"
                /\ ValueEq(padded.value, alone.value)

\* The key of a member of an accepted object text has been parsed and the
\* colon follows it directly.
C30_Witness ==
  /\ AtKeyParsed
  /\ FromText
  /\ parser.ret.is = "Ok"
  /\ parser.ret.value.tag = "String"
  /\ peek(parser) = Ch(":")
  /\ Run(parser).ret.is = "Ok"

\* An accepted array text: the cursor is before the comma after an element.
C30_WitnessArray ==
  /\ AfterElement
  /\ FromText
  /\ peek(parser) = Ch(",")
  /\ Run(parser).ret.is = "Ok"

====
